---- MODULE Spec2Model ----
(***************************************************************************)
(* EZLyricVideoMaker as state machines:                                    *)
(*   Spec         VideoService (services/ffmpegService.ts): engine loading *)
(*                and the createVideo render pipeline;                     *)
(*   SpecProbe    VideoService.getAudioDuration and the Audio element;     *)
(*   SpecApp      the wizard of App.tsx and its asynchronous calls;        *)
(*   SpecCodec    the timestamp codec applied to drawn strings and times;  *)
(*   SpecSrt      validateAndFixSrt and parseSrtToSubtitles applied to     *)
(*                drawn texts.                                             *)
(*   SpecRuns     successive createVideo runs on the shared service and    *)
(*                the 'progress' listeners they register.                  *)
(*                                                                         *)
(* Units.  Times are integer milliseconds.  Progress ratios are integers   *)
(* in units of 1/18000, so that every literal the code passes to           *)
(* onProgress and 0.50 + progress * 0.45 are exact; encoder progress       *)
(* values are integers in units of 1/90.                                   *)
(***************************************************************************)
EXTENDS Integers, Sequences, FiniteSets, TLC

VARIABLES
    loaded,            \* VideoService.loaded
    logListeners,      \* number of 'log' listeners registered on the FFmpeg instance
    progressListeners, \* number of 'progress' listeners registered on the FFmpeg instance
    fs,                \* the FFmpeg scratch file system: file name -> content
    pc,                \* position of the async method currently executing
    loadOutcome,       \* how the latest load call ended ("none" once createVideo is called)
    loadLogs,          \* onLog messages emitted by the latest load call
    subtitles,         \* createVideo: result of parseSrtToSubtitles
    audioDuration,     \* createVideo: resolved audio duration (ms)
    totalFrames,       \* createVideo: totalFrames
    i,                 \* createVideo: frame loop index
    lastSubtitle,      \* createVideo: lastSubtitle
    cachedFrameData,   \* createVideo: cachedFrameData (NoData = null)
    pendingWrites,     \* writeFile calls issued and not yet settled: [name, data]
    cleanupPos,        \* createVideo: position of the cleanup sequence
    cleanupError,      \* createVideo: the cleanup try block caught an error
    events,            \* encoder 'progress' events delivered during this run
    reports,           \* values passed to onProgress, in call order
    renderLog,         \* frame indices for which renderFrame was invoked, in order
    writeLog,          \* frame indices whose writeFile completed, in order
    deleteLog,         \* file names passed to deleteFile, in order
    result,            \* what createVideo returned or threw
    probe,             \* getAudioDuration: state of the promise it returns
    audioEvents,       \* getAudioDuration: events the Audio element has fired
    step,              \* App: step
    data,              \* App: data (VideoData)
    isProcessing,      \* App: isProcessing
    error,             \* App: error (NoError = null)
    apiKey,            \* App: apiKey (text of the key input)
    hasApiKey,         \* App: hasApiKey
    pending,           \* App: asynchronous calls issued and not yet settled
    issued,            \* App: how many files, images and renders were started
    callee,            \* text functions: the functions applied so far, in order
    argument,          \* text functions: the input drawn
    returned           \* text functions: what each of them returned, in order

videoVars == <<loaded, logListeners, progressListeners, fs, pc, loadOutcome, loadLogs,
          subtitles, audioDuration, totalFrames, i, lastSubtitle,
          cachedFrameData, pendingWrites, cleanupPos, cleanupError, events, reports,
          renderLog, writeLog, deleteLog, result>>

probeVars == <<probe, audioEvents>>
appVars == <<step, data, isProcessing, error, apiKey, hasApiKey, pending, issued>>
textVars == <<callee, argument, returned>>

vars == <<videoVars, probeVars, appVars, textVars>>

loadVars == <<loaded, logListeners, loadOutcome, loadLogs>>
jobVars == <<subtitles, audioDuration, totalFrames, i, lastSubtitle, cachedFrameData,
             pendingWrites, cleanupPos, cleanupError, events, reports, renderLog,
             writeLog, deleteLog, result, progressListeners, fs>>

(***************************************************************************)
(* Bounds of the exploration.                                              *)
(***************************************************************************)
MaxDurationMs == 10000
MaxEvents == 2
MaxLoadFailures == 1

(***************************************************************************)
(* Program constants.                                                      *)
(***************************************************************************)
FPS == 4
ProgressEvery == 20
PadWidth == 5
P001 == 180
P005 == 900
P040 == 7200
P045 == 8100
P050 == 9000
P095 == 17100
P100 == 18000
EncodeShare == 90

NoData == "null"

(***************************************************************************)
(* Inputs.                                                                 *)
(***************************************************************************)
Cue(text, startMs, endMs) == [text |-> text, startSec |-> startMs, endSec |-> endMs]

\* Subtitle lists parseSrtToSubtitles can return: texts are non-empty and
\* times are >= 0; nothing orders the cues or makes endSec exceed startSec.
CueInputs ==
    { <<>>,
      << Cue("A", 0, 5000), Cue("B", 5000, 10000) >>,
      << Cue("A", 0, 5000), Cue("C", 2600, 7400) >>,
      << Cue("C", 2600, 7400), Cue("A", 0, 5000) >>,
      << Cue("B", 5000, 10000), Cue("A", 0, 5000), Cue("B", 1000, 1100) >>,
      << Cue("A", 3000, 1000), Cue("B", 250, 251) >>,
      << Cue("A", 0, 10000), Cue("A", 5000, 10000) >> }

\* Durations getAudioDuration resolves to (ms), up to MaxDurationMs: one just
\* over a frame period, one just over 20 frames, and the longest. (The 180 s
\* that stands in for a failed probe lies beyond this bound.)
Durations == { 251, MaxDurationMs \div 2 + 100, MaxDurationMs }

\* Encoder progress values (units of 1/90): 0.5 (a value inside [0,1]), and
\* 10/9 and 2 (the encoder's ratio is an estimate and can exceed 1).
ProgressValues == { 45, 100, 180 }

(***************************************************************************)
(* Pure functions of the pipeline.                                         *)
(***************************************************************************)
\* Variant: Math.floor in place of Math.ceil.
TotalFramesFloor(durationMs) == (durationMs * FPS) \div 1000

\* Math.ceil(audioDuration * fps), the duration given in ms.
TotalFrames(durationMs) == (durationMs * FPS + 999) \div 1000

\* Variant: the cue interval closed at its end (currentTime <= sub.endSec).
FindIndexClosedEnd(subs, n) ==
    LET hits == { j \in 1..Len(subs) :
                    /\ n * 1000 >= subs[j].startSec * FPS
                    /\ n * 1000 <= subs[j].endSec * FPS }
    IN IF hits = {} THEN 0 ELSE CHOOSE j \in hits : \A h \in hits : j <= h

\* subtitles.find(sub => currentTime >= sub.startSec && currentTime < sub.endSec)
\* with currentTime = n / fps; 0 when no cue matches.
FindIndex(subs, n) ==
    LET hits == { j \in 1..Len(subs) :
                    /\ n * 1000 >= subs[j].startSec * FPS
                    /\ n * 1000 < subs[j].endSec * FPS }
    IN IF hits = {} THEN 0 ELSE CHOOSE j \in hits : \A h \in hits : j <= h

\* currentSubtitle?.text || ''
SubtitleText(subs, n) ==
    LET j == FindIndex(subs, n) IN IF j = 0 THEN "" ELSE subs[j].text

\* renderFrame(baseImage, subtitleText, 1280, 720): the JPEG bytes, a function
\* of the base image (fixed during a run) and the text drawn.
RenderFrame(text) == <<"jpeg", text>>

\* Variant: no caching, every frame is rendered.
NeedsRenderAlways(text, last, cached) == TRUE

\* subtitleText !== lastSubtitle || !cachedFrameData
NeedsRender(text, last, cached) == text # last \/ cached = NoData

\* i.toString().padStart(5, '0'): the decimal digits, most significant first.
RECURSIVE Digits(_)
Digits(n) == IF n < 10 THEN <<n>> ELSE Append(Digits(n \div 10), n % 10)

PadStart(ds, width) ==
    IF Len(ds) >= width THEN ds ELSE [x \in 1..(width - Len(ds)) |-> 0] \o ds

\* `frame${i.toString().padStart(5, '0')}.jpg`
FrameName(n) == <<"frame", PadStart(Digits(n), PadWidth)>>
AudioName == <<"audio", <<>>>>
OutputName == <<"output", <<>>>>

\* 0.05 + (i / totalFrames) * 0.4, truncated to 1/18000.
FrameProgress(n, total) == P005 + (n * P040) \div total

\* 0.50 + progress * 0.45
EncodeProgress(p) == P050 + p * EncodeShare

\* The deletions of the cleanup block, in order: every frame, the audio, the output.
CleanupName(pos, total) ==
    IF pos < total THEN FrameName(pos)
    ELSE IF pos = total THEN AudioName ELSE OutputName

\* Variant: the output asset is not deleted.
CleanupLengthNoOutput(total) == total + 1

CleanupLength(total) == total + 2

Remove(f, name) == [x \in DOMAIN f \ {name} |-> f[x]]
Put(f, name, bytes) == [x \in DOMAIN f \cup {name} |-> IF x = name THEN bytes ELSE f[x]]

(***************************************************************************)
(* Initial state: a freshly constructed VideoService, no duration probe    *)
(* started, the App just mounted with no stored API key, no text function  *)
(* applied.                                                                *)
(***************************************************************************)
NoError == "null"
NoValue == 0

\* No getAudioDuration call has been made.
ProbeIdle ==
    /\ probe = <<"idle">>
    /\ audioEvents = <<>>

\* The useState initial values of App.
AppMounted ==
    /\ step = "UPLOAD"
    /\ data = [audioFile |-> NoValue, srtContent |-> NoValue,
               imageBase64 |-> NoValue, generatedVideoUrl |-> NoValue]
    /\ isProcessing = FALSE
    /\ error = NoError
    /\ apiKey = ""
    /\ hasApiKey = FALSE
    /\ pending = {}
    /\ issued = [files |-> 0, images |-> 0, renders |-> 0]

\* No text function has been applied.
TextIdle ==
    /\ callee = <<>>
    /\ argument = <<>>
    /\ returned = <<>>

\* A freshly constructed VideoService.
VideoFresh ==
    /\ loaded = FALSE
    /\ logListeners = 0
    /\ progressListeners = 0
    /\ fs = <<>>
    /\ pc = "idle"
    /\ loadOutcome = "none"
    /\ loadLogs = 0
    /\ subtitles = <<>>
    /\ audioDuration = 0
    /\ totalFrames = 0
    /\ i = 0
    /\ lastSubtitle = ""
    /\ cachedFrameData = NoData
    /\ pendingWrites = {}
    /\ cleanupPos = 0
    /\ cleanupError = FALSE
    /\ events = 0
    /\ reports = <<>>
    /\ renderLog = <<>>
    /\ writeLog = <<>>
    /\ deleteLog = <<>>
    /\ result = "none"

Init ==
    /\ VideoFresh
    /\ ProbeIdle
    /\ AppMounted
    /\ TextIdle

(***************************************************************************)
(* load(onLog)                                                             *)
(***************************************************************************)
\* Variant: load without its guard.
AlreadyLoadedNever == FALSE

\* The guard of load: if (this.loaded) return;
AlreadyLoaded == loaded

\* load called on a loaded service: it returns at once.
LoadReturnsEarly ==
    /\ pc = "idle"
    /\ AlreadyLoaded
    /\ loadOutcome' = "returned"
    /\ loadLogs' = 0
    /\ UNCHANGED <<loaded, logListeners, pc>>
    /\ UNCHANGED jobVars
    /\ UNCHANGED <<probeVars, appVars, textVars>>

\* onLog("Loading video engine..."); this.ffmpeg.on('log', ...);
\* onLog("Downloading core files..."); then the first toBlobURL is awaited.
LoadStarts ==
    /\ pc = "idle"
    /\ ~AlreadyLoaded
    /\ loadLogs' = 2
    /\ logListeners' = logListeners + 1
    /\ loadOutcome' = "pending"
    /\ pc' = "load_core"
    /\ UNCHANGED loaded
    /\ UNCHANGED jobVars
    /\ UNCHANGED <<probeVars, appVars, textVars>>

\* await toBlobURL(CORE_URL, ...) resolves; the second toBlobURL is awaited.
LoadCoreFetched ==
    /\ pc = "load_core"
    /\ pc' = "load_wasm"
    /\ UNCHANGED <<loaded, logListeners, loadOutcome, loadLogs>>
    /\ UNCHANGED jobVars
    /\ UNCHANGED <<probeVars, appVars, textVars>>

\* await toBlobURL(WASM_URL, ...) resolves; onLog("Loading worker...");
\* this.ffmpeg.load is awaited.
LoadWasmFetched ==
    /\ pc = "load_wasm"
    /\ loadLogs' = loadLogs + 1
    /\ pc' = "load_engine"
    /\ UNCHANGED <<loaded, logListeners, loadOutcome>>
    /\ UNCHANGED jobVars
    /\ UNCHANGED <<probeVars, appVars, textVars>>

\* await this.ffmpeg.load(...) resolves; this.loaded = true; onLog("Engine ready!").
LoadEngineLoaded ==
    /\ pc = "load_engine"
    /\ loaded' = TRUE
    /\ loadLogs' = loadLogs + 1
    /\ loadOutcome' = "ok"
    /\ pc' = "idle"
    /\ UNCHANGED logListeners
    /\ UNCHANGED jobVars
    /\ UNCHANGED <<probeVars, appVars, textVars>>

\* One of the awaits rejects: the catch block rethrows, loaded stays false.
LoadFails ==
    /\ pc \in {"load_core", "load_wasm", "load_engine"}
    /\ logListeners <= MaxLoadFailures
    /\ loadOutcome' = "threw"
    /\ pc' = "idle"
    /\ UNCHANGED <<loaded, logListeners, loadLogs>>
    /\ UNCHANGED jobVars
    /\ UNCHANGED <<probeVars, appVars, textVars>>

(***************************************************************************)
(* createVideo(audioFile, srtContent, imageBase64, onProgress)             *)
(***************************************************************************)
\* Variant: the loaded check placed after the first onProgress call.
CreateVideoNotLoadedLate ==
    /\ pc = "idle"
    /\ ~loaded
    /\ pc' = "failed"
    /\ result' = "FFmpeg not loaded"
    /\ reports' = Append(reports, P001)
    /\ loadOutcome' = "none"
    /\ loadLogs' = 0
    /\ UNCHANGED <<loaded, logListeners>>
    /\ UNCHANGED <<subtitles, audioDuration, totalFrames, i, lastSubtitle,
                   cachedFrameData, pendingWrites, cleanupPos, cleanupError, events,
                   renderLog, writeLog, deleteLog, progressListeners, fs>>
    /\ UNCHANGED <<probeVars, appVars, textVars>>

\* Called while the engine is not loaded: throws before doing anything.
CreateVideoNotLoaded ==
    /\ pc = "idle"
    /\ ~loaded
    /\ pc' = "failed"
    /\ result' = "FFmpeg not loaded"
    /\ loadOutcome' = "none"
    /\ loadLogs' = 0
    /\ UNCHANGED <<loaded, logListeners>>
    /\ UNCHANGED <<subtitles, audioDuration, totalFrames, i, lastSubtitle,
                   cachedFrameData, pendingWrites, cleanupPos, cleanupError, events,
                   reports, renderLog, writeLog, deleteLog, progressListeners, fs>>
    /\ UNCHANGED <<probeVars, appVars, textVars>>

\* onProgress(0.01); subtitles = parseSrtToSubtitles(srtContent);
\* getAudioDuration is awaited.
CreateVideoCall ==
    /\ pc = "idle"
    /\ loaded
    /\ \E subs \in CueInputs : subtitles' = subs
    /\ reports' = Append(reports, P001)
    /\ pc' = "probe"
    /\ loadOutcome' = "none"
    /\ loadLogs' = 0
    /\ UNCHANGED <<loaded, logListeners>>
    /\ UNCHANGED <<audioDuration, totalFrames, i, lastSubtitle, cachedFrameData,
                   pendingWrites, cleanupPos, cleanupError, events, renderLog,
                   writeLog, deleteLog, result, progressListeners, fs>>
    /\ UNCHANGED <<probeVars, appVars, textVars>>

\* getAudioDuration resolves; onProgress(0.05); totalFrames = Math.ceil(...);
\* loadImage is awaited.
DurationResolved ==
    /\ pc = "probe"
    /\ \E d \in Durations :
          /\ audioDuration' = d
          /\ totalFrames' = TotalFrames(d)
    /\ reports' = Append(reports, P005)
    /\ pc' = "image"
    /\ UNCHANGED loadVars
    /\ UNCHANGED <<subtitles, i, lastSubtitle, cachedFrameData, pendingWrites,
                   cleanupPos, cleanupError, events, renderLog, writeLog, deleteLog,
                   result, progressListeners, fs>>
    /\ UNCHANGED <<probeVars, appVars, textVars>>

\* loadImage resolves; lastSubtitle = ''; cachedFrameData = null; i = 0.
ImageLoaded ==
    /\ pc = "image"
    /\ lastSubtitle' = ""
    /\ cachedFrameData' = NoData
    /\ i' = 0
    /\ pc' = "frame"
    /\ UNCHANGED loadVars
    /\ UNCHANGED <<subtitles, audioDuration, totalFrames, pendingWrites, cleanupPos,
                   cleanupError, events, reports, renderLog, writeLog, deleteLog,
                   result, progressListeners, fs>>
    /\ UNCHANGED <<probeVars, appVars, textVars>>

\* loadImage rejects: createVideo throws.
ImageFails ==
    /\ pc = "image"
    /\ pc' = "failed"
    /\ result' = "image load failed"
    /\ UNCHANGED loadVars
    /\ UNCHANGED <<subtitles, audioDuration, totalFrames, i, lastSubtitle,
                   cachedFrameData, pendingWrites, cleanupPos, cleanupError, events,
                   reports, renderLog, writeLog, deleteLog, progressListeners, fs>>
    /\ UNCHANGED <<probeVars, appVars, textVars>>

\* Variant: writeFile is not awaited; the loop goes on to the next frame at once.
FrameStepNoAwait ==
    /\ pc = "frame"
    /\ i < totalFrames
    /\ LET subtitleText == SubtitleText(subtitles, i)
           render == NeedsRender(subtitleText, lastSubtitle, cachedFrameData)
       IN /\ cachedFrameData' =
                IF render THEN RenderFrame(subtitleText) ELSE cachedFrameData
          /\ lastSubtitle' = IF render THEN subtitleText ELSE lastSubtitle
          /\ renderLog' = IF render THEN Append(renderLog, i) ELSE renderLog
          /\ pendingWrites' = pendingWrites \cup
                {[name |-> FrameName(i),
                  data |-> IF render THEN RenderFrame(subtitleText) ELSE cachedFrameData]}
    /\ i' = i + 1
    /\ UNCHANGED loadVars
    /\ UNCHANGED <<pc, subtitles, audioDuration, totalFrames, cleanupPos,
                   cleanupError, events, reports, writeLog, deleteLog, result,
                   progressListeners, fs>>
    /\ UNCHANGED <<probeVars, appVars, textVars>>

\* One iteration of the frame loop up to its writeFile call: pick the active
\* subtitle, render when the text changed (or nothing is cached), issue the
\* write of frame i and await it.
FrameStep ==
    /\ pc = "frame"
    /\ i < totalFrames
    /\ LET subtitleText == SubtitleText(subtitles, i)
           render == NeedsRender(subtitleText, lastSubtitle, cachedFrameData)
       IN /\ cachedFrameData' =
                IF render THEN RenderFrame(subtitleText) ELSE cachedFrameData
          /\ lastSubtitle' = IF render THEN subtitleText ELSE lastSubtitle
          /\ renderLog' = IF render THEN Append(renderLog, i) ELSE renderLog
          /\ pendingWrites' = pendingWrites \cup
                {[name |-> FrameName(i),
                  data |-> IF render THEN RenderFrame(subtitleText) ELSE cachedFrameData]}
    /\ pc' = "frame_write"
    /\ UNCHANGED loadVars
    /\ UNCHANGED <<subtitles, audioDuration, totalFrames, i, cleanupPos,
                   cleanupError, events, reports, writeLog, deleteLog, result,
                   progressListeners, fs>>
    /\ UNCHANGED <<probeVars, appVars, textVars>>

\* The awaited writeFile of frame i resolves; onProgress every 20th frame; i++.
FrameWritten ==
    /\ pc = "frame_write"
    /\ \E w \in pendingWrites :
          /\ w.name = FrameName(i)
          /\ fs' = Put(fs, w.name, w.data)
          /\ pendingWrites' = pendingWrites \ {w}
    /\ writeLog' = Append(writeLog, i)
    /\ reports' = IF i % ProgressEvery = 0
                  THEN Append(reports, FrameProgress(i, totalFrames))
                  ELSE reports
    /\ i' = i + 1
    /\ pc' = "frame"
    /\ UNCHANGED loadVars
    /\ UNCHANGED <<subtitles, audioDuration, totalFrames, lastSubtitle,
                   cachedFrameData, cleanupPos, cleanupError, events, renderLog,
                   deleteLog, result, progressListeners>>
    /\ UNCHANGED <<probeVars, appVars, textVars>>

\* The awaited writeFile of frame i rejects: createVideo throws.
FrameWriteFails ==
    /\ pc = "frame_write"
    /\ pendingWrites' = {w \in pendingWrites : w.name # FrameName(i)}
    /\ pc' = "failed"
    /\ result' = "frame write failed"
    /\ UNCHANGED loadVars
    /\ UNCHANGED <<subtitles, audioDuration, totalFrames, i, lastSubtitle,
                   cachedFrameData, cleanupPos, cleanupError, events, reports,
                   renderLog, writeLog, deleteLog, progressListeners, fs>>
    /\ UNCHANGED <<probeVars, appVars, textVars>>

\* The frame loop ends; onProgress(0.45); fetchFile and the writeFile of the
\* audio are awaited.
FramesDone ==
    /\ pc = "frame"
    /\ ~(i < totalFrames)
    /\ reports' = Append(reports, P045)
    /\ pendingWrites' = pendingWrites \cup {[name |-> AudioName, data |-> "audio"]}
    /\ pc' = "audio_write"
    /\ UNCHANGED loadVars
    /\ UNCHANGED <<subtitles, audioDuration, totalFrames, i, lastSubtitle,
                   cachedFrameData, cleanupPos, cleanupError, events, renderLog,
                   writeLog, deleteLog, result, progressListeners, fs>>
    /\ UNCHANGED <<probeVars, appVars, textVars>>

\* The audio write resolves; onProgress(0.50); the 'progress' listener is
\* registered; ffmpeg.exec is invoked and awaited.
AudioWritten ==
    /\ pc = "audio_write"
    /\ \E w \in pendingWrites :
          /\ w.name = AudioName
          /\ fs' = Put(fs, w.name, w.data)
          /\ pendingWrites' = pendingWrites \ {w}
    /\ reports' = Append(reports, P050)
    /\ progressListeners' = progressListeners + 1
    /\ pc' = "exec"
    /\ UNCHANGED loadVars
    /\ UNCHANGED <<subtitles, audioDuration, totalFrames, i, lastSubtitle,
                   cachedFrameData, cleanupPos, cleanupError, events, renderLog,
                   writeLog, deleteLog, result>>
    /\ UNCHANGED <<probeVars, appVars, textVars>>

\* fetchFile or the audio write rejects: createVideo throws.
AudioWriteFails ==
    /\ pc = "audio_write"
    /\ pendingWrites' = {w \in pendingWrites : w.name # AudioName}
    /\ pc' = "failed"
    /\ result' = "audio staging failed"
    /\ UNCHANGED loadVars
    /\ UNCHANGED <<subtitles, audioDuration, totalFrames, i, lastSubtitle,
                   cachedFrameData, cleanupPos, cleanupError, events, reports,
                   renderLog, writeLog, deleteLog, progressListeners, fs>>
    /\ UNCHANGED <<probeVars, appVars, textVars>>

\* The encoder emits a 'progress' event while the run is past listener
\* registration: every registered listener calls onProgress(0.50 + progress * 0.45).
EncoderProgress ==
    /\ pc \in {"exec", "read", "cleanup"}
    /\ events < MaxEvents
    /\ \E p \in ProgressValues :
          reports' = reports \o [n \in 1..progressListeners |-> EncodeProgress(p)]
    /\ events' = events + 1
    /\ UNCHANGED loadVars
    /\ UNCHANGED <<pc, subtitles, audioDuration, totalFrames, i, lastSubtitle,
                   cachedFrameData, pendingWrites, cleanupPos, cleanupError,
                   renderLog, writeLog, deleteLog, result, progressListeners, fs>>
    /\ UNCHANGED <<probeVars, appVars, textVars>>

\* ffmpeg.exec resolves (its exit code is not looked at; the encoder may or may
\* not have produced output.mp4); onProgress(0.95); readFile is awaited.
ExecResolved ==
    /\ pc = "exec"
    /\ \E produced \in BOOLEAN :
          fs' = IF produced THEN Put(fs, OutputName, "mp4") ELSE fs
    /\ reports' = Append(reports, P095)
    /\ pc' = "read"
    /\ UNCHANGED loadVars
    /\ UNCHANGED <<subtitles, audioDuration, totalFrames, i, lastSubtitle,
                   cachedFrameData, pendingWrites, cleanupPos, cleanupError, events,
                   renderLog, writeLog, deleteLog, result, progressListeners>>
    /\ UNCHANGED <<probeVars, appVars, textVars>>

\* ffmpeg.exec rejects: createVideo throws.
ExecFails ==
    /\ pc = "exec"
    /\ pc' = "failed"
    /\ result' = "encode failed"
    /\ UNCHANGED loadVars
    /\ UNCHANGED <<subtitles, audioDuration, totalFrames, i, lastSubtitle,
                   cachedFrameData, pendingWrites, cleanupPos, cleanupError, events,
                   reports, renderLog, writeLog, deleteLog, progressListeners, fs>>
    /\ UNCHANGED <<probeVars, appVars, textVars>>

\* readFile(outputName) resolves; the cleanup block issues its first deleteFile.
ReadResolved ==
    /\ pc = "read"
    /\ OutputName \in DOMAIN fs
    /\ cleanupPos' = 0
    /\ deleteLog' = Append(deleteLog, CleanupName(0, totalFrames))
    /\ pc' = "cleanup"
    /\ UNCHANGED loadVars
    /\ UNCHANGED <<subtitles, audioDuration, totalFrames, i, lastSubtitle,
                   cachedFrameData, pendingWrites, cleanupError, events, reports,
                   renderLog, writeLog, result, progressListeners, fs>>
    /\ UNCHANGED <<probeVars, appVars, textVars>>

\* readFile(outputName) rejects (always, when there is no output): createVideo throws.
ReadFails ==
    /\ pc = "read"
    /\ pc' = "failed"
    /\ result' = "output read failed"
    /\ UNCHANGED loadVars
    /\ UNCHANGED <<subtitles, audioDuration, totalFrames, i, lastSubtitle,
                   cachedFrameData, pendingWrites, cleanupPos, cleanupError, events,
                   reports, renderLog, writeLog, deleteLog, progressListeners, fs>>
    /\ UNCHANGED <<probeVars, appVars, textVars>>

\* The awaited deleteFile resolves. Either the next deleteFile is issued, or the
\* cleanup block is over: onProgress(1) and the blob URL is returned.
DeleteResolved ==
    /\ pc = "cleanup"
    /\ fs' = Remove(fs, CleanupName(cleanupPos, totalFrames))
    /\ cleanupPos' = cleanupPos + 1
    /\ IF cleanupPos + 1 < CleanupLength(totalFrames)
       THEN /\ deleteLog' = Append(deleteLog, CleanupName(cleanupPos + 1, totalFrames))
            /\ UNCHANGED <<pc, reports, result>>
       ELSE /\ reports' = Append(reports, P100)
            /\ result' = "url"
            /\ pc' = "done"
            /\ UNCHANGED deleteLog
    /\ UNCHANGED loadVars
    /\ UNCHANGED <<subtitles, audioDuration, totalFrames, i, lastSubtitle,
                   cachedFrameData, pendingWrites, cleanupError, events, renderLog,
                   writeLog, progressListeners>>
    /\ UNCHANGED <<probeVars, appVars, textVars>>

\* Variant: no catch around the cleanup; a rejected deleteFile makes createVideo throw.
DeleteFailsThrows ==
    /\ pc = "cleanup"
    /\ cleanupError' = TRUE
    /\ result' = "cleanup failed"
    /\ pc' = "failed"
    /\ UNCHANGED loadVars
    /\ UNCHANGED <<subtitles, audioDuration, totalFrames, i, lastSubtitle,
                   cachedFrameData, pendingWrites, cleanupPos, events, reports,
                   renderLog, writeLog, deleteLog, progressListeners, fs>>
    /\ UNCHANGED <<probeVars, appVars, textVars>>

\* The awaited deleteFile rejects: the catch block swallows the error and ends
\* the cleanup; onProgress(1) and the blob URL is returned.
DeleteFails ==
    /\ pc = "cleanup"
    /\ cleanupError' = TRUE
    /\ reports' = Append(reports, P100)
    /\ result' = "url"
    /\ pc' = "done"
    /\ UNCHANGED loadVars
    /\ UNCHANGED <<subtitles, audioDuration, totalFrames, i, lastSubtitle,
                   cachedFrameData, pendingWrites, cleanupPos, events, renderLog,
                   writeLog, deleteLog, progressListeners, fs>>
    /\ UNCHANGED <<probeVars, appVars, textVars>>

Next ==
    \/ LoadReturnsEarly
    \/ LoadStarts
    \/ LoadCoreFetched
    \/ LoadWasmFetched
    \/ LoadEngineLoaded
    \/ LoadFails
    \/ CreateVideoNotLoaded
    \/ CreateVideoCall
    \/ DurationResolved
    \/ ImageLoaded
    \/ ImageFails
    \/ FrameStep
    \/ FrameWritten
    \/ FrameWriteFails
    \/ FramesDone
    \/ AudioWritten
    \/ AudioWriteFails
    \/ EncoderProgress
    \/ ExecResolved
    \/ ExecFails
    \/ ReadResolved
    \/ ReadFails
    \/ DeleteResolved
    \/ DeleteFails

Spec == Init /\ [][Next]_vars

(***************************************************************************)
(* getAudioDuration(audioFile): an Audio element is pointed at the file;   *)
(* its loadedmetadata and error handlers resolve the returned promise.     *)
(***************************************************************************)
FallbackSeconds == 180
MaxProbedSeconds == 60

\* Values of audio.duration: a finite number (here in ms), NaN or Infinity.
Finite(ms) == <<"finite", ms>>
NotANumber == <<"NaN", 0>>
Unbounded == <<"Infinity", 0>>

AudioDurations ==
    { Finite(s * 1000) : s \in 0..MaxProbedSeconds } \cup { NotANumber, Unbounded }

\* JavaScript truthiness of a number: false for 0 and NaN only.
Truthy(d) == d[1] = "Infinity" \/ (d[1] = "finite" /\ d[2] # 0)

\* audio.duration || 180
OrFallback(d) == IF Truthy(d) THEN d ELSE Finite(FallbackSeconds * 1000)

\* resolve(v): settles the promise if it is still pending, else does nothing.
Resolve(p, v) == IF p[1] = "pending" THEN <<"resolved", v>> ELSE p

\* new Promise(...): the element is created, its src set, the handlers attached.
ProbeCall ==
    /\ probe[1] = "idle"
    /\ probe' = <<"pending">>
    /\ UNCHANGED audioEvents
    /\ UNCHANGED <<videoVars, appVars, textVars>>

\* The element fires loadedmetadata: resolve(audio.duration || 180).
MetadataLoaded ==
    /\ probe[1] # "idle"
    /\ audioEvents = <<>>
    /\ \E d \in AudioDurations :
          /\ audioEvents' = << <<"loadedmetadata", d>> >>
          /\ probe' = Resolve(probe, OrFallback(d))
    /\ UNCHANGED <<videoVars, appVars, textVars>>

\* The element fires error (at once, or after its metadata had loaded):
\* resolve(180).
AudioError ==
    /\ probe[1] # "idle"
    /\ \A n \in 1..Len(audioEvents) : audioEvents[n][1] # "error"
    /\ audioEvents' = Append(audioEvents, <<"error", NotANumber>>)
    /\ probe' = Resolve(probe, Finite(FallbackSeconds * 1000))
    /\ UNCHANGED <<videoVars, appVars, textVars>>

NextProbe ==
    \/ ProbeCall
    \/ MetadataLoaded
    \/ AudioError

SpecProbe == Init /\ [][NextProbe]_vars

(***************************************************************************)
(* App (App.tsx): the wizard state, its handlers and the completions of    *)
(* the asynchronous calls they start.  Files, images and videos are named  *)
(* by the number of the upload, image request or render that produced      *)
(* them; the subtitle text is named by the file it was transcribed from    *)
(* (an edit in the text area changes the text, not the file it belongs to).*)
(***************************************************************************)
MaxFiles == 2
MaxImages == 2
MaxRenders == 2

BlankData == [audioFile |-> NoValue, srtContent |-> NoValue,
              imageBase64 |-> NoValue, generatedVideoUrl |-> NoValue]

\* Texts of the key input: empty, blank, a key.
KeyTexts == { "", " ", "AIza" }
Trim(text) == IF text = " " THEN "" ELSE text

\* What the user picks in a file input.
AudioChoices == { "audio", "over 25MB", "not audio" }
ImageChoices == { "image", "not image" }

\* err.message of a rejected call: possibly empty.
Messages == { "", "request failed" }
OrDefault(message, default) == IF message = "" THEN default ELSE message

Calls(kind) == { c \in pending : c.kind = kind }

\* onChange of the key input (shown while no key is set).
TypeApiKey ==
    /\ ~hasApiKey
    /\ \E text \in KeyTexts : apiKey' = text
    /\ UNCHANGED <<step, data, isProcessing, error, hasApiKey, pending, issued>>
    /\ UNCHANGED <<videoVars, probeVars, textVars>>

\* handleSaveApiKey
HandleSaveApiKey ==
    /\ ~hasApiKey
    /\ IF Trim(apiKey) # ""
       THEN /\ hasApiKey' = TRUE
            /\ error' = NoError
       ELSE UNCHANGED <<hasApiKey, error>>
    /\ UNCHANGED <<step, data, isProcessing, apiKey, pending, issued>>
    /\ UNCHANGED <<videoVars, probeVars, textVars>>

\* handleClearApiKey (the "Change" link, shown whenever a key is set),
\* which ends with resetAndStartOver().
HandleClearApiKey ==
    /\ hasApiKey
    /\ apiKey' = ""
    /\ hasApiKey' = FALSE
    /\ data' = BlankData
    /\ step' = "UPLOAD"
    /\ error' = NoError
    /\ UNCHANGED <<isProcessing, pending, issued>>
    /\ UNCHANGED <<videoVars, probeVars, textVars>>

\* resetAndStartOver ("Make Another", shown once a video URL is set).
ResetAndStartOver ==
    /\ hasApiKey
    /\ step = "PREVIEW_DOWNLOAD"
    /\ data.generatedVideoUrl # NoValue
    /\ data' = BlankData
    /\ step' = "UPLOAD"
    /\ error' = NoError
    /\ UNCHANGED <<isProcessing, apiKey, hasApiKey, pending, issued>>
    /\ UNCHANGED <<videoVars, probeVars, textVars>>

\* The dismiss button of the error banner.
DismissError ==
    /\ hasApiKey
    /\ error # NoError
    /\ error' = NoError
    /\ UNCHANGED <<step, data, isProcessing, apiKey, hasApiKey, pending, issued>>
    /\ UNCHANGED <<videoVars, probeVars, textVars>>

\* handleUpload, which for an accepted file ends with handleTranscribe(file)
\* up to its await.
HandleUpload ==
    /\ hasApiKey
    /\ step = "UPLOAD"
    /\ issued.files < MaxFiles
    /\ \E choice \in AudioChoices :
          IF choice = "over 25MB"
          THEN /\ error' = "File size exceeds 25MB limit."
               /\ UNCHANGED <<step, data, isProcessing, pending, issued>>
          ELSE IF choice = "not audio"
          THEN /\ error' = "Please upload a valid audio file (MP3/WAV)."
               /\ UNCHANGED <<step, data, isProcessing, pending, issued>>
          ELSE LET file == issued.files + 1 IN
               /\ data' = [data EXCEPT !.audioFile = file]
               /\ step' = "TRANSCRIBING"
               /\ isProcessing' = TRUE
               /\ error' = NoError
               /\ pending' = pending \cup {[kind |-> "transcribe", id |-> file]}
               /\ issued' = [issued EXCEPT !.files = file]
    /\ UNCHANGED <<apiKey, hasApiKey>>
    /\ UNCHANGED <<videoVars, probeVars, textVars>>

\* Variant: a catch block that leaves the step where it is.
TranscribeRejectsStays ==
    /\ \E c \in Calls("transcribe"), message \in Messages :
          /\ pending' = pending \ {c}
          /\ error' = OrDefault(message, "Transcription failed.")
    /\ isProcessing' = FALSE
    /\ UNCHANGED <<step, data, apiKey, hasApiKey, issued>>
    /\ UNCHANGED <<videoVars, probeVars, textVars>>

\* handleTranscribe: generateSrtFromAudio rejects; catch, then finally.
TranscribeRejects ==
    /\ \E c \in Calls("transcribe"), message \in Messages :
          /\ pending' = pending \ {c}
          /\ error' = OrDefault(message, "Transcription failed.")
    /\ step' = "UPLOAD"
    /\ isProcessing' = FALSE
    /\ UNCHANGED <<data, apiKey, hasApiKey, issued>>
    /\ UNCHANGED <<videoVars, probeVars, textVars>>

\* handleTranscribe: generateSrtFromAudio resolves; then finally.
TranscribeResolves ==
    /\ \E c \in Calls("transcribe") :
          /\ pending' = pending \ {c}
          /\ data' = [data EXCEPT !.srtContent = c.id]
    /\ step' = "EDIT_SRT"
    /\ isProcessing' = FALSE
    /\ UNCHANGED <<error, apiKey, hasApiKey, issued>>
    /\ UNCHANGED <<videoVars, probeVars, textVars>>

\* "Next: Generate Art"
NextToImage ==
    /\ hasApiKey
    /\ step = "EDIT_SRT"
    /\ step' = "GENERATING_IMAGE"
    /\ UNCHANGED <<data, isProcessing, error, apiKey, hasApiKey, pending, issued>>
    /\ UNCHANGED <<videoVars, probeVars, textVars>>

\* handleGenerateImage up to its await (the button is shown while idle).
HandleGenerateImage ==
    /\ hasApiKey
    /\ step = "GENERATING_IMAGE"
    /\ ~isProcessing
    /\ issued.images < MaxImages
    /\ isProcessing' = TRUE
    /\ error' = NoError
    /\ pending' = pending \cup {[kind |-> "generate", id |-> issued.images + 1]}
    /\ issued' = [issued EXCEPT !.images = issued.images + 1]
    /\ UNCHANGED <<step, data, apiKey, hasApiKey>>
    /\ UNCHANGED <<videoVars, probeVars, textVars>>

\* handleGenerateImage: generateCoverImage resolves; then finally.
GenerateResolves ==
    /\ \E c \in Calls("generate") :
          /\ pending' = pending \ {c}
          /\ data' = [data EXCEPT !.imageBase64 = c.id]
    /\ step' = "PREVIEW_DOWNLOAD"
    /\ isProcessing' = FALSE
    /\ UNCHANGED <<error, apiKey, hasApiKey, issued>>
    /\ UNCHANGED <<videoVars, probeVars, textVars>>

\* handleGenerateImage: generateCoverImage rejects; catch, then finally.
GenerateRejects ==
    /\ \E c \in Calls("generate"), message \in Messages :
          /\ pending' = pending \ {c}
          /\ error' = OrDefault(message, "Image generation failed.")
    /\ isProcessing' = FALSE
    /\ UNCHANGED <<step, data, apiKey, hasApiKey, issued>>
    /\ UNCHANGED <<videoVars, probeVars, textVars>>

\* handleImageUpload (the input is shown while idle): a FileReader is started.
HandleImageUpload ==
    /\ hasApiKey
    /\ step = "GENERATING_IMAGE"
    /\ ~isProcessing
    /\ issued.images < MaxImages
    /\ \E choice \in ImageChoices :
          IF choice = "not image"
          THEN /\ error' = "Please upload a JPG or PNG image."
               /\ UNCHANGED <<pending, issued>>
          ELSE /\ pending' = pending \cup {[kind |-> "read", id |-> issued.images + 1]}
               /\ issued' = [issued EXCEPT !.images = issued.images + 1]
               /\ UNCHANGED error
    /\ UNCHANGED <<step, data, isProcessing, apiKey, hasApiKey>>
    /\ UNCHANGED <<videoVars, probeVars, textVars>>

\* reader.onload of handleImageUpload.
ImageRead ==
    /\ \E c \in Calls("read") :
          /\ pending' = pending \ {c}
          /\ data' = [data EXCEPT !.imageBase64 = c.id]
    /\ step' = "PREVIEW_DOWNLOAD"
    /\ UNCHANGED <<isProcessing, error, apiKey, hasApiKey, issued>>
    /\ UNCHANGED <<videoVars, probeVars, textVars>>

\* handleCreateVideo up to its first await (the button is shown while idle and
\* no video URL is set): videoService.load is called; on an unloaded service it
\* registers its 'log' listener before it awaits.
HandleCreateVideo ==
    /\ hasApiKey
    /\ step = "PREVIEW_DOWNLOAD"
    /\ data.generatedVideoUrl = NoValue
    /\ ~isProcessing
    /\ issued.renders < MaxRenders
    /\ IF data.audioFile = NoValue \/ data.imageBase64 = NoValue
       THEN UNCHANGED <<isProcessing, error, pending, issued, logListeners>>
       ELSE /\ isProcessing' = TRUE
            /\ error' = NoError
            /\ pending' = pending \cup {[kind |-> IF loaded THEN "loaded" ELSE "load",
                                         id |-> issued.renders + 1]}
            /\ issued' = [issued EXCEPT !.renders = issued.renders + 1]
            /\ logListeners' = IF loaded THEN logListeners ELSE logListeners + 1
    /\ UNCHANGED <<step, data, apiKey, hasApiKey>>
    /\ UNCHANGED <<loaded, pc, loadOutcome, loadLogs>>
    /\ UNCHANGED jobVars
    /\ UNCHANGED <<probeVars, textVars>>

\* handleCreateVideo: the awaited load resolves (at once on a loaded service);
\* videoService.createVideo is called with the data the handler was started with.
RenderLoadResolves ==
    /\ \E c \in Calls("load") \cup Calls("loaded") :
          pending' = (pending \ {c}) \cup {[kind |-> "createVideo", id |-> c.id]}
    /\ loaded' = TRUE
    /\ UNCHANGED <<step, data, isProcessing, error, apiKey, hasApiKey, issued>>
    /\ UNCHANGED <<logListeners, pc, loadOutcome, loadLogs>>
    /\ UNCHANGED jobVars
    /\ UNCHANGED <<probeVars, textVars>>

\* handleCreateVideo: the awaited load rejects; catch.
RenderLoadRejects ==
    /\ \E c \in Calls("load"), message \in Messages :
          /\ pending' = pending \ {c}
          /\ error' = OrDefault(message, "Video creation failed.")
    /\ isProcessing' = FALSE
    /\ UNCHANGED <<step, data, apiKey, hasApiKey, issued>>
    /\ UNCHANGED <<videoVars, probeVars, textVars>>

\* handleCreateVideo: the awaited createVideo resolves with the video URL.
RenderResolves ==
    /\ \E c \in Calls("createVideo") :
          /\ pending' = pending \ {c}
          /\ data' = [data EXCEPT !.generatedVideoUrl = c.id]
    /\ isProcessing' = FALSE
    /\ UNCHANGED <<step, error, apiKey, hasApiKey, issued>>
    /\ UNCHANGED <<videoVars, probeVars, textVars>>

\* handleCreateVideo: the awaited createVideo rejects; catch.
RenderRejects ==
    /\ \E c \in Calls("createVideo"), message \in Messages :
          /\ pending' = pending \ {c}
          /\ error' = OrDefault(message, "Video creation failed.")
    /\ isProcessing' = FALSE
    /\ UNCHANGED <<step, data, apiKey, hasApiKey, issued>>
    /\ UNCHANGED <<videoVars, probeVars, textVars>>

NextApp ==
    \/ TypeApiKey
    \/ HandleSaveApiKey
    \/ HandleClearApiKey
    \/ ResetAndStartOver
    \/ DismissError
    \/ HandleUpload
    \/ TranscribeRejects
    \/ TranscribeResolves
    \/ NextToImage
    \/ HandleGenerateImage
    \/ GenerateResolves
    \/ GenerateRejects
    \/ HandleImageUpload
    \/ ImageRead
    \/ HandleCreateVideo
    \/ RenderLoadResolves
    \/ RenderLoadRejects
    \/ RenderResolves
    \/ RenderRejects

SpecApp == Init /\ [][NextApp]_vars

(***************************************************************************)
(* JavaScript numbers.  The timestamp code computes in IEEE 754 doubles:   *)
(* ms / 1000 is rounded, the sum with the whole seconds is rounded again,  *)
(* and (totalSeconds % 1) * 1000 is rounded before Math.floor.  A finite   *)
(* non-negative double is held here exactly, as the natural number of      *)
(* units 2^-75 it equals, written in base 2^15 with the least significant  *)
(* digit first; every operation computes the exact result and rounds it to *)
(* 53 significant bits, ties to even.  (Every double the timestamp code    *)
(* meets is zero or at least 2^-22, hence a multiple of 2^-75.)            *)
(***************************************************************************)
Precision == 53
DigitBits == 15
UnitDigits == 5

Base == 2 ^ DigitBits
UnitBits == UnitDigits * DigitBits

Zeros(n) == [k \in 1..n |-> 0]
Digit(x, k) == IF k >= 1 /\ k <= Len(x) THEN x[k] ELSE 0

RECURSIVE Natural(_)
Natural(n) == IF n = 0 THEN <<>> ELSE <<n % Base>> \o Natural(n \div Base)

RECURSIVE Value(_)
Value(x) == IF x = <<>> THEN 0 ELSE x[1] + Base * Value(Tail(x))

RECURSIVE Strip(_)
Strip(x) ==
    IF x # <<>> /\ x[Len(x)] = 0 THEN Strip(SubSeq(x, 1, Len(x) - 1)) ELSE x

RECURSIVE AddCarry(_, _, _, _)
AddCarry(a, b, k, carry) ==
    IF k > Len(a) /\ k > Len(b)
    THEN Natural(carry)
    ELSE <<(Digit(a, k) + Digit(b, k) + carry) % Base>>
         \o AddCarry(a, b, k + 1, (Digit(a, k) + Digit(b, k) + carry) \div Base)

\* a + b, exact.
Plus(a, b) == Strip(AddCarry(a, b, 1, 0))

RECURSIVE SubBorrow(_, _, _, _)
SubBorrow(a, b, k, borrow) ==
    IF k > Len(a)
    THEN <<>>
    ELSE <<(a[k] - Digit(b, k) - borrow) % Base>>
         \o SubBorrow(a, b, k + 1, IF a[k] - Digit(b, k) - borrow < 0 THEN 1 ELSE 0)

\* a - b for a >= b, exact.
Minus(a, b) == Strip(SubBorrow(a, b, 1, 0))

RECURSIVE MulCarry(_, _, _, _)
MulCarry(a, c, k, carry) ==
    IF k > Len(a)
    THEN Natural(carry)
    ELSE <<(a[k] * c + carry) % Base>>
         \o MulCarry(a, c, k + 1, (a[k] * c + carry) \div Base)

\* a * c for a natural number c below 2^15, exact.
Times(a, c) == Strip(MulCarry(a, c, 1, 0))

RECURSIVE DivStep(_, _, _, _, _)
DivStep(a, c, k, rem, q) ==
    IF k = 0
    THEN [q |-> Strip(q), r |-> rem]
    ELSE DivStep(a, c, k - 1, (rem * Base + a[k]) % c, <<(rem * Base + a[k]) \div c>> \o q)

\* Quotient and remainder of a by a natural number c below 2^15, exact.
DivRem(a, c) == DivStep(a, c, Len(a), 0, <<>>)

\* a < b
Less(a, b) ==
    IF Len(a) # Len(b)
    THEN Len(a) < Len(b)
    ELSE \E k \in 1..Len(a) :
            /\ a[k] < b[k]
            /\ \A j \in (k + 1)..Len(a) : a[j] = b[j]

\* Number of bits of x.
BitLength(x) ==
    IF x = <<>>
    THEN 0
    ELSE DigitBits * (Len(x) - 1)
         + (CHOOSE n \in 1..DigitBits : 2 ^ (n - 1) <= x[Len(x)] /\ x[Len(x)] < 2 ^ n)

\* x * 2^n and the whole part of x / 2^n.
ShiftLeft(x, n) ==
    LET whole == n \div DigitBits
        part == n % DigitBits
    IN  Strip([k \in 1..(Len(x) + whole + 1) |->
                 (Digit(x, k - whole) % (2 ^ (DigitBits - part))) * (2 ^ part)
                 + (Digit(x, k - whole - 1) \div (2 ^ (DigitBits - part)))])

ShiftRight(x, n) ==
    LET whole == n \div DigitBits
        part == n % DigitBits
    IN  IF Len(x) <= whole
        THEN <<>>
        ELSE Strip([k \in 1..(Len(x) - whole) |->
                      (Digit(x, k + whole) \div (2 ^ part))
                      + (Digit(x, k + whole + 1) % (2 ^ part)) * (2 ^ (DigitBits - part))])

\* Bit n of x (bit 0 is the lowest), and whether the n lowest bits are all 0.
TestBit(x, n) == (Digit(x, (n \div DigitBits) + 1) \div (2 ^ (n % DigitBits))) % 2
LowBitsZero(x, n) ==
    /\ \A k \in 1..(n \div DigitBits) : Digit(x, k) = 0
    /\ Digit(x, (n \div DigitBits) + 1) % (2 ^ (n % DigitBits)) = 0

\* Round to the nearest double, ties to even.
Round(x) ==
    IF BitLength(x) <= Precision
    THEN x
    ELSE LET drop == BitLength(x) - Precision
             kept == ShiftRight(x, drop)
             up == /\ TestBit(x, drop - 1) = 1
                   /\ (~LowBitsZero(x, drop - 1) \/ kept[1] % 2 = 1)
         IN  ShiftLeft(IF up THEN Plus(kept, <<1>>) ELSE kept, drop)

\* The double with the value of the natural number n.
Double(n) == IF n = 0 THEN <<>> ELSE Zeros(UnitDigits) \o Natural(n)

\* x + y and x - y (for x >= y) in double arithmetic.
DoublePlus(x, y) == Round(Plus(x, y))
DoubleMinus(x, y) == Round(Minus(x, y))

\* x * c in double arithmetic, c a natural number below 2^15.
DoubleTimes(x, c) == Round(Times(x, c))

\* x / c in double arithmetic, c a natural number below 2^15: the quotient
\* is computed to one further digit whose lowest bit is sticky.
DoubleOver(x, c) ==
    LET d == DivRem(<<0>> \o x, c)
        jammed == IF d.r # 0 /\ d.q[1] % 2 = 0
                  THEN <<d.q[1] + 1>> \o Tail(d.q)
                  ELSE d.q
    IN  IF x = <<>> THEN <<>> ELSE Tail(Round(jammed))

\* Math.floor(x) as a natural number, and x % 1.
Floor(x) == IF Len(x) <= UnitDigits THEN 0 ELSE Value(SubSeq(x, UnitDigits + 1, Len(x)))
Frac(x) == Strip(SubSeq(x, 1, IF Len(x) < UnitDigits THEN Len(x) ELSE UnitDigits))

\* x % n for a natural number n: exact, as the remainder of doubles is.
DoubleMod(x, n) == Plus(Double(Floor(x) % n), Frac(x))

(***************************************************************************)
(* Strings are sequences of characters.  The timestamp codec:              *)
(* timeToSeconds (services/ffmpegService.ts), srtTimeToSeconds and         *)
(* secondsToSrtTime (the subtitle sanitizer's module).                     *)
(***************************************************************************)
DigitChars == <<"0", "1", "2", "3", "4", "5", "6", "7", "8", "9">>
Separators == {":", ",", "."}

IsDigit(c) == \E d \in 1..10 : DigitChars[d] = c
DigitOf(c) == (CHOOSE d \in 1..10 : DigitChars[d] = c) - 1

\* num.toString(), for the digits of num
ToChars(ds) == [k \in 1..Len(ds) |-> DigitChars[ds[k] + 1]]

\* str.trim()
RECURSIVE TrimStart(_)
TrimStart(str) == IF str # <<>> /\ str[1] = " " THEN TrimStart(Tail(str)) ELSE str

RECURSIVE TrimEnd(_)
TrimEnd(str) ==
    IF str # <<>> /\ str[Len(str)] = " " THEN TrimEnd(SubSeq(str, 1, Len(str) - 1)) ELSE str

TrimString(str) == TrimEnd(TrimStart(str))

\* str.split(/[:,\.]/)
RECURSIVE Split(_)
Split(str) ==
    IF \A k \in 1..Len(str) : str[k] \notin Separators
    THEN <<str>>
    ELSE LET at == CHOOSE k \in 1..Len(str) :
                      /\ str[k] \in Separators
                      /\ \A j \in 1..(k - 1) : str[j] \notin Separators
         IN  <<SubSeq(str, 1, at - 1)>> \o Split(SubSeq(str, at + 1, Len(str)))

RECURSIVE DecimalValue(_)
DecimalValue(str) ==
    IF str = <<>>
    THEN 0
    ELSE 10 * DecimalValue(SubSeq(str, 1, Len(str) - 1)) + DigitOf(str[Len(str)])

\* parseInt(field, 10) || 0: the value of the digits the field starts with
\* (after leading blanks); a field that starts with no digit counts as 0.
ParseIntOrZero(field) ==
    LET str == TrimStart(field)
        run == CHOOSE n \in 0..Len(str) :
                  /\ \A k \in 1..n : IsDigit(str[k])
                  /\ n < Len(str) => ~IsDigit(str[n + 1])
    IN  DecimalValue(SubSeq(str, 1, run))

Null == <<"null", <<>>>>
Number(x) == <<"number", x>>
String(str) == <<"string", str>>

\* hours * 3600 + minutes * 60 + seconds + ms / 1000
Seconds(hours, minutes, seconds, ms) ==
    DoublePlus(Double(hours * 3600 + minutes * 60 + seconds), DoubleOver(Double(ms), 1000))

\* Variant: three fields read as hours, minutes, seconds.
timeToSecondsHoursFirst(time) ==
    IF time = <<>>
    THEN Null
    ELSE LET parts == Split(TrimString(time))
         IN  IF Len(parts) = 4
             THEN Number(Seconds(ParseIntOrZero(parts[1]), ParseIntOrZero(parts[2]),
                                 ParseIntOrZero(parts[3]), ParseIntOrZero(parts[4])))
             ELSE IF Len(parts) = 3
             THEN Number(Seconds(ParseIntOrZero(parts[1]), ParseIntOrZero(parts[2]),
                                 ParseIntOrZero(parts[3]), 0))
             ELSE Null

\* VideoService.timeToSeconds
timeToSeconds(time) ==
    IF time = <<>>
    THEN Null
    ELSE LET parts == Split(TrimString(time))
         IN  IF Len(parts) = 4
             THEN Number(Seconds(ParseIntOrZero(parts[1]), ParseIntOrZero(parts[2]),
                                 ParseIntOrZero(parts[3]), ParseIntOrZero(parts[4])))
             ELSE IF Len(parts) = 3
             THEN Number(Seconds(0, ParseIntOrZero(parts[1]), ParseIntOrZero(parts[2]),
                                 ParseIntOrZero(parts[3])))
             ELSE Null

\* srtTimeToSeconds
srtTimeToSeconds(time) ==
    LET parts == Split(TrimString(time))
    IN  IF Len(parts) < 3
        THEN Number(Double(0))
        ELSE IF Len(parts) = 4
        THEN Number(Seconds(ParseIntOrZero(parts[1]), ParseIntOrZero(parts[2]),
                            ParseIntOrZero(parts[3]), ParseIntOrZero(parts[4])))
        ELSE Number(Seconds(0, ParseIntOrZero(parts[1]), ParseIntOrZero(parts[2]),
                            ParseIntOrZero(parts[3])))

\* pad(num, size) = num.toString().padStart(size, '0')
Pad(num, size) == ToChars(PadStart(Digits(num), size))

\* `${pad(h, 2)}:${pad(m, 2)}:${pad(s, 2)},${pad(ms, 3)}`
TimeString(h, m, s, ms) ==
    Pad(h, 2) \o <<":">> \o Pad(m, 2) \o <<":">> \o Pad(s, 2) \o <<",">> \o Pad(ms, 3)

\* secondsToSrtTime
secondsToSrtTime(totalSeconds) ==
    TimeString(Floor(DoubleOver(totalSeconds, 3600)),
               Floor(DoubleOver(DoubleMod(totalSeconds, 3600), 60)),
               Floor(DoubleMod(totalSeconds, 60)),
               Floor(DoubleTimes(Frac(totalSeconds), 1000)))

(***************************************************************************)
(* The codec applied to drawn inputs: a time string or a time, then up to  *)
(* MaxCalls calls, each applied to what the previous one returned.         *)
(***************************************************************************)
MaxTimes == 40
MaxCalls == 2

\* Times in whole milliseconds.
WholeMs == { n * 997 : n \in 0..MaxTimes } \cup { 4350, 14480, 3599999, 3661001, 86399999 }

\* T ms written as HH:MM:SS,mmm
Canonical(T) ==
    TimeString(T \div 3600000, (T \div 60000) % 60, (T \div 1000) % 60, T % 1000)

OddStrings ==
    { <<"0", "0", ":", "4", "8", ":", "0">>,
      <<"4", "8", ":", "0", "7", ".", "5">>,
      <<"0", "0", ":", "0", "0", ":", "1", "4", ".", "4", "8", "0">>,
      <<" ", "1", ":", "0", "2", ",", "5", "0", " ">>,
      <<"0", "1", ":", "0", "0", ":", "0", "0", ",", "5", "0", "0", "0">>,
      <<"x", ":", "1", "0", ",", "5">>,
      <<"0", "0", ":", "x", "x", ":", "0", "7", ",", "0", "0", "0">>,
      <<"1", "a", ":", "2", ":", "3">>,
      <<"1", "2", ":", "3", "4">>,
      <<"1", ":", "2", ":", "3", ":", "4", ":", "5">>,
      <<"4", "8">>,
      <<" ">>,
      <<>> }

CodecInputs ==
    { String(Canonical(T)) : T \in WholeMs }
        \cup { String(str) : str \in OddStrings }
        \cup { Number(DoubleOver(Double(T), 1000)) : T \in WholeMs }

InitCodec ==
    /\ VideoFresh
    /\ ProbeIdle
    /\ AppMounted
    /\ callee = <<>>
    /\ returned = <<>>
    /\ argument \in CodecInputs

\* What the next call is applied to.
AtHand == IF returned = <<>> THEN argument ELSE returned[Len(returned)]

CallTimeToSeconds ==
    /\ Len(callee) < MaxCalls
    /\ AtHand[1] = "string"
    /\ callee' = Append(callee, "timeToSeconds")
    /\ returned' = Append(returned, timeToSeconds(AtHand[2]))
    /\ UNCHANGED argument
    /\ UNCHANGED <<videoVars, probeVars, appVars>>

CallSrtTimeToSeconds ==
    /\ Len(callee) < MaxCalls
    /\ AtHand[1] = "string"
    /\ callee' = Append(callee, "srtTimeToSeconds")
    /\ returned' = Append(returned, srtTimeToSeconds(AtHand[2]))
    /\ UNCHANGED argument
    /\ UNCHANGED <<videoVars, probeVars, appVars>>

CallSecondsToSrtTime ==
    /\ Len(callee) < MaxCalls
    /\ AtHand[1] = "number"
    /\ callee' = Append(callee, "secondsToSrtTime")
    /\ returned' = Append(returned, String(secondsToSrtTime(AtHand[2])))
    /\ UNCHANGED argument
    /\ UNCHANGED <<videoVars, probeVars, appVars>>

NextCodec ==
    \/ CallTimeToSeconds
    \/ CallSrtTimeToSeconds
    \/ CallSecondsToSrtTime

SpecCodec == InitCodec /\ [][NextCodec]_vars

(***************************************************************************)
(* SRT text.  A text is its sequence of lines.  A line is held as what the *)
(* code reads from it once trimmed: the two time strings timeRegex         *)
(* captures (empty when the line does not match) and its words, which for  *)
(* a matching line are the words of the third group.  Joining texts with   *)
(* one space is the concatenation of their words.                          *)
(***************************************************************************)
RangeLine(start, end, words) == [start |-> start, end |-> end, text |-> words]
TextLine(words) == [start |-> <<>>, end |-> <<>>, text |-> words]
BlankLine == TextLine(<<>>)

\* timeRegex.test(line)
IsRange(line) == line.start # <<>>

\* !line
IsBlank(line) == ~IsRange(line) /\ line.text = <<>>

\* /^\d+$/.test(line)
IsDigits(line) ==
    /\ ~IsRange(line)
    /\ Len(line.text) = 1
    /\ line.text[1] # <<>>
    /\ \A k \in 1..Len(line.text[1]) : IsDigit(line.text[1][k])

\* str.trim(), on the lines of str
RECURSIVE TrimLinesStart(_)
TrimLinesStart(str) ==
    IF str # <<>> /\ IsBlank(Head(str)) THEN TrimLinesStart(Tail(str)) ELSE str

RECURSIVE TrimLinesEnd(_)
TrimLinesEnd(str) ==
    IF str # <<>> /\ IsBlank(str[Len(str)])
    THEN TrimLinesEnd(SubSeq(str, 1, Len(str) - 1))
    ELSE str

TrimLines(str) == TrimLinesEnd(TrimLinesStart(str))

\* str.trim().split(/\r?\n/): the empty string splits into one empty line
SplitLines(str) == IF TrimLines(str) = <<>> THEN <<BlankLine>> ELSE TrimLines(str)

(***************************************************************************)
(* validateAndFixSrt                                                       *)
(***************************************************************************)
MaxCueSeconds == 12
LongCueSeconds == 5
ShortCueSeconds == 3

\* Rule 1: if (endSec - startSec > 12) endSec = startSec + 5
ClampLong(startSec, endSec) ==
    IF Less(startSec, endSec) /\ Less(Double(MaxCueSeconds), DoubleMinus(endSec, startSec))
    THEN DoublePlus(startSec, Double(LongCueSeconds))
    ELSE endSec

\* Rule 2: if (endSec <= startSec) endSec = startSec + 3
FixShort(startSec, endSec) ==
    IF ~Less(startSec, endSec)
    THEN DoublePlus(startSec, Double(ShortCueSeconds))
    ELSE endSec

\* The text loop of validateAndFixSrt from line j: where it stops and the
\* text it has gathered.
RECURSIVE GatherText(_, _, _)
GatherText(lines, j, text) ==
    IF j > Len(lines)
    THEN [j |-> j, text |-> text]
    ELSE IF IsBlank(lines[j])
    THEN GatherText(lines, j + 1, text)
    ELSE IF IsDigits(lines[j]) \/ IsRange(lines[j])
    THEN [j |-> j, text |-> text]
    ELSE GatherText(lines, j + 1, text \o lines[j].text)

\* Variant: every block is numbered 1.
BlockNumberedOne(index, startSec, endSec, text) ==
    << TextLine(<<<<"1">>>>),
       RangeLine(secondsToSrtTime(startSec), secondsToSrtTime(endSec), <<>>),
       TextLine(text),
       BlankLine >>

\* The block validateAndFixSrt pushes: index, time range, text and the
\* empty line that ends it.
Block(index, startSec, endSec, text) ==
    << TextLine(<<ToChars(Digits(index))>>),
       RangeLine(secondsToSrtTime(startSec), secondsToSrtTime(endSec), <<>>),
       TextLine(text),
       BlankLine >>

\* The for loop of validateAndFixSrt from line n.
RECURSIVE FixFrom(_, _, _, _)
FixFrom(lines, n, blocks, index) ==
    IF n > Len(lines)
    THEN blocks
    ELSE IF IsRange(lines[n])
    THEN LET startSec == srtTimeToSeconds(lines[n].start)[2]
             endSec == FixShort(startSec,
                                ClampLong(startSec, srtTimeToSeconds(lines[n].end)[2]))
             got == GatherText(lines, n + 1, lines[n].text)
         IN  IF got.text # <<>>
             THEN FixFrom(lines, got.j,
                          blocks \o Block(index, startSec, endSec, got.text), index + 1)
             ELSE FixFrom(lines, got.j, blocks, index)
    ELSE FixFrom(lines, n + 1, blocks, index)

\* Variant: the joined blocks are returned even when there are none.
validateAndFixSrtNoFallback(rawSrt) == FixFrom(SplitLines(rawSrt), 1, <<>>, 1)

\* validateAndFixSrt
validateAndFixSrt(rawSrt) ==
    IF FixFrom(SplitLines(rawSrt), 1, <<>>, 1) = <<>>
    THEN rawSrt
    ELSE FixFrom(SplitLines(rawSrt), 1, <<>>, 1)

(***************************************************************************)
(* VideoService.parseSrtToSubtitles                                        *)
(***************************************************************************)
SyncOffset == 0

\* Math.max(0, x)
AtLeastZero(x) == IF Less(x, Double(0)) THEN Double(0) ELSE x

\* Variant: the look-ahead stops at every digits-only line.
BreaksLookAheadAnyIndex(lines, j) == IsRange(lines[j]) \/ IsDigits(lines[j])

\* timeRegex.test(nextLine) || (/^\d+$/.test(nextLine) && j < lines.length - 1
\*     && timeRegex.test(lines[j+1]))
BreaksLookAhead(lines, j) ==
    \/ IsRange(lines[j])
    \/ IsDigits(lines[j]) /\ j < Len(lines) /\ IsRange(lines[j + 1])

\* The look-ahead loop of parseSrtToSubtitles from line j.
RECURSIVE LookAhead(_, _, _)
LookAhead(lines, j, text) ==
    IF j > Len(lines)
    THEN [j |-> j, text |-> text]
    ELSE IF BreaksLookAhead(lines, j)
    THEN [j |-> j, text |-> text]
    ELSE LookAhead(lines, j + 1, text \o lines[j].text)

\* Variant: a cue is pushed whatever its text.
PushesCueAlways(text) == TRUE

\* if (text) subtitles.push(...)
PushesCue(text) == text # <<>>

\* The for loop of parseSrtToSubtitles from line n.
RECURSIVE ParseFrom(_, _, _)
ParseFrom(lines, n, subs) ==
    IF n > Len(lines)
    THEN subs
    ELSE IF IsRange(lines[n])
    THEN LET startSecRaw == timeToSeconds(lines[n].start)
             endSecRaw == timeToSeconds(lines[n].end)
             got == IF lines[n].text # <<>>
                    THEN [j |-> n + 1, text |-> lines[n].text]
                    ELSE LookAhead(lines, n + 1, <<>>)
         IN  IF startSecRaw = Null \/ endSecRaw = Null
             THEN ParseFrom(lines, n + 1, subs)
             ELSE IF PushesCue(got.text)
             THEN ParseFrom(lines, got.j,
                      Append(subs,
                          [text |-> got.text,
                           startSec |-> AtLeastZero(DoublePlus(startSecRaw[2], Double(SyncOffset))),
                           endSec |-> AtLeastZero(DoublePlus(endSecRaw[2], Double(SyncOffset)))]))
             ELSE ParseFrom(lines, got.j, subs)
    ELSE ParseFrom(lines, n + 1, subs)

\* lines.map(l => l.trim()).filter(l => l)
NonEmptyLines(lines) == SelectSeq(lines, LAMBDA line : ~IsBlank(line))

\* VideoService.parseSrtToSubtitles
parseSrtToSubtitles(srtContent) == ParseFrom(NonEmptyLines(SplitLines(srtContent)), 1, <<>>)

(***************************************************************************)
(* The sanitizer and the parser applied to drawn texts: the sanitizer to   *)
(* the trimmed answer of the model, the parser to the text of the editor,  *)
(* which is what the sanitizer returned or anything typed over it.         *)
(***************************************************************************)
MaxLines == 3

La == <<"l", "a">>
Oh == <<"o", "h">>

LineChoices ==
    { RangeLine(Canonical(1000), Canonical(1001), <<>>),
      RangeLine(Canonical(10000), Canonical(9999000), <<La>>),
      RangeLine(Canonical(20000), Canonical(18000), <<>>),
      RangeLine(Canonical(4350), Canonical(16350), <<>>),
      RangeLine(Canonical(30000), <<"0", "0", ":", "3", "4", ".", "5">>, <<>>),
      TextLine(<<<<"7">>>>),
      TextLine(<<Oh, La>>),
      BlankLine }

SrtInputs == UNION { [1..n -> LineChoices] : n \in 0..MaxLines }

Text(lines) == <<"text", lines>>
Cues(subs) == <<"cues", subs>>

InitSrt ==
    /\ VideoFresh
    /\ ProbeIdle
    /\ AppMounted
    /\ callee = <<>>
    /\ returned = <<>>
    /\ argument \in { Text(str) : str \in SrtInputs }

\* generateSrtFromAudio hands the trimmed answer to validateAndFixSrt.
CallValidateAndFixSrt ==
    /\ callee = <<>>
    /\ argument[2] = TrimLines(argument[2])
    /\ callee' = Append(callee, "validateAndFixSrt")
    /\ returned' = Append(returned, Text(validateAndFixSrt(argument[2])))
    /\ UNCHANGED argument
    /\ UNCHANGED <<videoVars, probeVars, appVars>>

\* createVideo parses data.srtContent.
CallParseSrtToSubtitles ==
    /\ AtHand[1] = "text"
    /\ callee' = Append(callee, "parseSrtToSubtitles")
    /\ returned' = Append(returned, Cues(parseSrtToSubtitles(AtHand[2])))
    /\ UNCHANGED argument
    /\ UNCHANGED <<videoVars, probeVars, appVars>>

NextSrt ==
    \/ CallValidateAndFixSrt
    \/ CallParseSrtToSubtitles

SpecSrt == InitSrt /\ [][NextSrt]_vars

(***************************************************************************)
(* Successive createVideo runs on the shared videoService.  A run is       *)
(* followed from onProgress call to onProgress call: issued.renders is the *)
(* number of the current run, callee the log of the 'progress' listeners   *)
(* registered (<<"on", run>>) and of the onProgress callbacks invoked      *)
(* (<<"onProgress", run>>, the callback that was passed to that run), and  *)
(* reports the values passed in those calls.  Frames, scratch files and    *)
(* cleanup of a run are followed in Spec.                                  *)
(***************************************************************************)
MaxRuns == 2

\* What the runs leave alone here.
stagingVars == <<fs, loadOutcome, loadLogs, subtitles, i, lastSubtitle, cachedFrameData,
                 pendingWrites, cleanupPos, cleanupError, renderLog, writeLog, deleteLog>>

\* The listeners registered with ffmpeg.on('progress', ...), in order.
Registered == SelectSeq(callee, LAMBDA c : c[1] = "on")

\* onProgress called with values vs by the run that was passed callback k.
Called(k, vs) == [n \in 1..Len(vs) |-> <<"onProgress", k>>]

\* The values the frame loop reports: onProgress(0.05 + (i / totalFrames) * 0.4)
\* for every i < totalFrames with i % 20 = 0.
FrameReports(total) ==
    [n \in 1..((total + ProgressEvery - 1) \div ProgressEvery) |->
        FrameProgress((n - 1) * ProgressEvery, total)]

\* videoService.load resolves on the service not yet loaded.
RunsLoad ==
    /\ ~loaded
    /\ loaded' = TRUE
    /\ logListeners' = logListeners + 1
    /\ UNCHANGED <<progressListeners, pc, audioDuration, totalFrames, events, reports, result>>
    /\ UNCHANGED stagingVars
    /\ UNCHANGED <<probeVars, appVars, textVars>>

\* createVideo is called on the loaded service once the run before it is
\* over: onProgress(0.01); getAudioDuration is awaited.
RunsCreateVideo ==
    /\ loaded
    /\ pc \in {"idle", "done", "failed"}
    /\ issued.renders < MaxRuns
    /\ issued' = [issued EXCEPT !.renders = issued.renders + 1]
    /\ callee' = callee \o Called(issued.renders + 1, <<P001>>)
    /\ reports' = Append(reports, P001)
    /\ events' = 0
    /\ result' = "none"
    /\ pc' = "probe"
    /\ UNCHANGED <<loaded, logListeners, progressListeners, audioDuration, totalFrames>>
    /\ UNCHANGED stagingVars
    /\ UNCHANGED <<step, data, isProcessing, error, apiKey, hasApiKey, pending>>
    /\ UNCHANGED <<probeVars, argument, returned>>

\* The frames and the audio are staged: onProgress(0.05), the reports of the
\* frame loop, onProgress(0.45), onProgress(0.50); the run registers its
\* 'progress' listener; ffmpeg.exec is awaited.
RunsStaged ==
    /\ pc = "probe"
    /\ \E d \in Durations :
          /\ audioDuration' = d
          /\ totalFrames' = TotalFrames(d)
          /\ LET vs == <<P005>> \o FrameReports(TotalFrames(d)) \o <<P045, P050>>
             IN  /\ reports' = reports \o vs
                 /\ callee' = callee \o Called(issued.renders, vs)
                                     \o <<<<"on", issued.renders>>>>
    /\ progressListeners' = progressListeners + 1
    /\ pc' = "exec"
    /\ UNCHANGED <<loaded, logListeners, events, result>>
    /\ UNCHANGED stagingVars
    /\ UNCHANGED <<probeVars, appVars, argument, returned>>

\* loadImage rejects after onProgress(0.05): createVideo throws before it
\* registers a listener.
RunsStagingFails ==
    /\ pc = "probe"
    /\ reports' = Append(reports, P005)
    /\ callee' = callee \o Called(issued.renders, <<P005>>)
    /\ pc' = "failed"
    /\ result' = "image load failed"
    /\ UNCHANGED <<loaded, logListeners, progressListeners, audioDuration, totalFrames, events>>
    /\ UNCHANGED stagingVars
    /\ UNCHANGED <<probeVars, appVars, argument, returned>>

\* The encoder emits a 'progress' event during ffmpeg.exec: every registered
\* listener calls the onProgress it was registered with.
RunsEncoderProgress ==
    /\ pc = "exec"
    /\ events < MaxEvents
    /\ \E p \in ProgressValues :
          reports' = reports \o [n \in 1..progressListeners |-> EncodeProgress(p)]
    /\ callee' = callee \o [n \in 1..progressListeners |-> <<"onProgress", Registered[n][2]>>]
    /\ events' = events + 1
    /\ UNCHANGED <<loaded, logListeners, progressListeners, pc, audioDuration, totalFrames,
                   result>>
    /\ UNCHANGED stagingVars
    /\ UNCHANGED <<probeVars, appVars, argument, returned>>

\* ffmpeg.exec resolves: onProgress(0.95); the output is read and the scratch
\* files are deleted; onProgress(1) and the URL is returned.
RunsExecResolved ==
    /\ pc = "exec"
    /\ reports' = reports \o <<P095, P100>>
    /\ callee' = callee \o Called(issued.renders, <<P095, P100>>)
    /\ pc' = "done"
    /\ result' = "url"
    /\ UNCHANGED <<loaded, logListeners, progressListeners, audioDuration, totalFrames, events>>
    /\ UNCHANGED stagingVars
    /\ UNCHANGED <<probeVars, appVars, argument, returned>>

\* ffmpeg.exec rejects: createVideo throws.
RunsExecFails ==
    /\ pc = "exec"
    /\ pc' = "failed"
    /\ result' = "encode failed"
    /\ UNCHANGED <<loaded, logListeners, progressListeners, audioDuration, totalFrames, events,
                   reports>>
    /\ UNCHANGED stagingVars
    /\ UNCHANGED <<probeVars, appVars, textVars>>

NextRuns ==
    \/ RunsLoad
    \/ RunsCreateVideo
    \/ RunsStaged
    \/ RunsStagingFails
    \/ RunsEncoderProgress
    \/ RunsExecResolved
    \/ RunsExecFails

SpecRuns == Init /\ [][NextRuns]_vars

(***************************************************************************)
(* Vocabulary of the properties.                                           *)
(***************************************************************************)
Range(seq) == { seq[n] : n \in 1..Len(seq) }
Last(seq) == seq[Len(seq)]
UpTo(n) == [x \in 1..n |-> x - 1]

\* The run is past its frame loop.
FrameLoopOver ==
    \/ pc \in {"audio_write", "exec", "read", "cleanup", "done"}
    \/ pc = "failed" /\ result \in {"audio staging failed", "encode failed",
                                     "output read failed"}

\* Cue c covers the sample instant of frame n at 4 frames per second:
\* startSec <= n/4 < endSec, times in ms.
Covers(c, n) == c.startSec * 4 <= n * 1000 /\ n * 1000 < c.endSec * 4

\* The text of the first cue, in sequence order, covering frame n; "" if none.
ActiveText(n) ==
    IF \E j \in 1..Len(subtitles) : Covers(subtitles[j], n)
    THEN subtitles[CHOOSE j \in 1..Len(subtitles) :
                       /\ Covers(subtitles[j], n)
                       /\ \A h \in 1..(j - 1) : ~Covers(subtitles[h], n)].text
    ELSE ""

\* The index a frame file name stands for.
FrameIndex(name) ==
    LET ds == name[2]
    IN ds[1] * 10000 + ds[2] * 1000 + ds[3] * 100 + ds[4] * 10 + ds[5]

\* Frames whose write has been issued so far (the last one may have failed).
IssuedFrames ==
    { n \in 0..(totalFrames - 1) :
        n < i \/ (n = i /\ (pc = "frame_write" \/ result = "frame write failed")) }

\* Frames whose active text differs from the previous frame's, plus frame 0.
ChangeFrames(S) == { n \in S : n = 0 \/ ActiveText(n) # ActiveText(n - 1) }

ExampleCues == << Cue("A", 0, 5000), Cue("B", 5000, 10000) >>
OverlapCues == << Cue("A", 0, 5000), Cue("C", 2600, 7400) >>

----------------------------------------------------------------------------
\* C1: within one createVideo run the values passed to onProgress are
\* non-decreasing and each lies in [0,1], whatever progress events the encoder
\* delivers (also after exec has returned).
C1_ProgressMonotoneInUnitRange ==
    \A n \in 1..Len(reports) :
        /\ 0 <= reports[n] /\ reports[n] <= P100
        /\ n > 1 => reports[n - 1] <= reports[n]

\* C2: a run that returns a URL made its last onProgress call with exactly 1,
\* after the encode and the cleanup; a run that fails never reported 1.
C2_OneIffSuccess ==
    /\ pc = "done" =>
          /\ result = "url"
          /\ reports # <<>> /\ Last(reports) = P100
          /\ \E n \in 1..Len(reports) : reports[n] = P095
    /\ pc = "failed" => \A n \in 1..Len(reports) : reports[n] # P100

\* C2, the part the code keeps: a successful run's last report is exactly 1.
C2_SuccessEndsAtOne ==
    pc = "done" => result = "url" /\ reports # <<>> /\ Last(reports) = P100

\* C3: for audio duration d at 4 frames per second exactly ceil(d*4) frames are
\* written, indices 0..ceil(d*4)-1, each once; d = 10 s with cues [0,5,A],
\* [5,10,B] gives 40 frames, 0-19 carrying "A" and 20-39 carrying "B".
C3_ExactlyCeilFrames ==
    /\ Cardinality(Range(writeLog)) = Len(writeLog)
    /\ Range(writeLog) \subseteq 0..(totalFrames - 1)
    /\ FrameLoopOver =>
          /\ Len(writeLog) * 1000 >= audioDuration * 4
          /\ (Len(writeLog) - 1) * 1000 < audioDuration * 4
          /\ Range(writeLog) = 0..(Len(writeLog) - 1)
    /\ (pc \in {"audio_write", "exec", "read"} /\ audioDuration = 10000
          /\ subtitles = ExampleCues) =>
          /\ Len(writeLog) = 40
          /\ \A n \in 0..19 : fs[FrameName(n)] = <<"jpeg", "A">>
          /\ \A n \in 20..39 : fs[FrameName(n)] = <<"jpeg", "B">>

C3_Witness ==
    /\ pc = "exec" /\ audioDuration = 10000 /\ subtitles = ExampleCues
    /\ Len(writeLog) = 40

\* C4: the text drawn on frame n is the text of the first cue, in sequence
\* order, with startSec <= n/fps < endSec, and is empty when there is none.
C4_FirstCoveringCue ==
    pc \in {"frame", "frame_write", "audio_write", "exec", "failed"} =>
        /\ \A name \in DOMAIN fs :
              name[1] = "frame" => fs[name] = <<"jpeg", ActiveText(FrameIndex(name))>>
        /\ \A w \in pendingWrites :
              w.name[1] = "frame" => w.data = <<"jpeg", ActiveText(FrameIndex(w.name))>>
        /\ FrameLoopOver =>
              \A n \in 0..(totalFrames - 1) : FrameName(n) \in DOMAIN fs

C4_Witness ==
    /\ pc = "exec" /\ audioDuration = 10000 /\ subtitles = OverlapCues
    /\ fs[FrameName(12)] = <<"jpeg", "A">>
    /\ fs[FrameName(20)] = <<"jpeg", "C">>
    /\ fs[FrameName(30)] = <<"jpeg", "">>

\* C5: renderFrame is invoked for frame n only if n is the first frame or its
\* active text differs from frame n-1's; otherwise frame n's bytes are those of
\* frame n-1; the number of renderFrame calls is 1 + the number of text changes.
C5_RenderOnlyOnChange ==
    pc \in {"frame", "frame_write", "audio_write", "exec", "failed"} =>
        LET changes == ChangeFrames(IssuedFrames)
        IN /\ Range(renderLog) = changes
           /\ Len(renderLog) = Cardinality(changes)
           /\ \A n \in 1..(totalFrames - 1) :
                 (FrameName(n) \in DOMAIN fs /\ n \notin changes) =>
                     fs[FrameName(n)] = fs[FrameName(n - 1)]

C5_Witness ==
    /\ pc = "exec" /\ audioDuration = 10000 /\ subtitles = ExampleCues
    /\ renderLog = <<0, 20>>

\* C6: frames are written in strictly increasing index order, one write
\* settling before the next is issued, and ffmpeg.exec starts only after every
\* frame write and the audio write have completed.
C6_SequentialWritesBeforeExec ==
    /\ Cardinality(pendingWrites) <= 1
    /\ writeLog = UpTo(Len(writeLog))
    /\ \A w \in pendingWrites, n \in 0..(totalFrames - 1) :
          w.name = FrameName(n) => Len(writeLog) = n
    /\ pc = "exec" =>
          /\ pendingWrites = {}
          /\ totalFrames > 0 /\ Len(writeLog) = totalFrames
          /\ \A n \in 0..(totalFrames - 1) : FrameName(n) \in DOMAIN fs
          /\ AudioName \in DOMAIN fs

C6_Witness == pc = "exec" /\ Len(writeLog) = 40 /\ AudioName \in DOMAIN fs

\* C7 as stated: when createVideo returns successfully the scratch namespace
\* holds none of the assets it created.
C7_ScratchEmptyOnSuccess == pc = "done" => DOMAIN fs = {}

\* C7 amended: on success every asset up to the first failed deletion is gone;
\* with no failed deletion the scratch namespace is empty, otherwise exactly the
\* asset whose deletion failed and those after it in deletion order remain.
C7_ScratchEmptyUpToFailure ==
    pc = "done" =>
        DOMAIN fs = IF cleanupError
                    THEN { CleanupName(pos, totalFrames) :
                             pos \in cleanupPos..(totalFrames + 1) }
                    ELSE {}

C7_Witness ==
    /\ pc = "done" /\ ~cleanupError /\ totalFrames = 40 /\ DOMAIN fs = {}
    /\ Len(deleteLog) = 42

\* C8: a deletion that fails after a successful encode is swallowed: the run
\* still reports 1 and returns the handle, and no deletion is attempted twice.
C8_CleanupFailureSwallowed ==
    /\ cleanupError =>
          /\ pc = "done" /\ result = "url" /\ Last(reports) = P100
          /\ Last(deleteLog) = CleanupName(cleanupPos, totalFrames)
    /\ Cardinality(Range(deleteLog)) = Len(deleteLog)

C8_Witness ==
    /\ cleanupError /\ pc = "done" /\ result = "url"
    /\ cleanupPos = 3 /\ Len(deleteLog) = 4

\* C9: when a step of a render job fails nothing of the job is left running and
\* every scratch asset it had written has had its deletion attempted before the
\* failure reaches the caller.
C9_FailureCleansScratch ==
    pc = "failed" =>
        /\ pendingWrites = {}
        /\ \A name \in DOMAIN fs : name \in Range(deleteLog)

\* C10: once load has succeeded a later load call returns at once: it loads
\* nothing, registers no log listener and emits no log message; a load that
\* failed leaves the engine not loaded, and the next load initializes again.
C10_LoadIdempotent ==
    /\ [][(pc = "idle" /\ loaded /\ pc' \notin {"probe", "failed"}) =>
            /\ pc' = "idle" /\ loaded'
            /\ logListeners' = logListeners
            /\ loadLogs' = 0]_vars
    /\ [][(pc = "idle" /\ ~loaded /\ pc' \notin {"idle", "failed"}) =>
            /\ pc' = "load_core"
            /\ logListeners' = logListeners + 1
            /\ loadLogs' = 2]_vars
    /\ [](loadOutcome = "threw" => ~loaded)
    /\ [](pc \in {"load_core", "load_wasm", "load_engine"} => ~loaded)

C10_Witness ==
    /\ loaded /\ pc = "idle" /\ loadOutcome = "returned"
    /\ logListeners = 2 /\ loadLogs = 0

\* C11: createVideo called while the engine is not loaded throws "FFmpeg not
\* loaded" and does nothing else: the step that throws leaves the progress
\* reports, the scratch file system, the issued and completed writes, the
\* render log, the listeners and the loaded flag as they were, and a run that
\* ended this way has reported no progress, staged no asset and never reached
\* the encoder.
C11_NotLoadedFailsWithoutEffect ==
    /\ [][(pc = "idle" /\ ~loaded /\ pc' \notin {"idle", "load_core"})
            => /\ pc' = "failed"
               /\ result' = "FFmpeg not loaded"
               /\ UNCHANGED <<reports, fs, pendingWrites, writeLog, renderLog,
                              deleteLog, events, progressListeners, logListeners,
                              loaded, subtitles, totalFrames>>]_vars
    /\ [](result = "FFmpeg not loaded"
            => /\ pc = "failed"
               /\ reports = <<>>
               /\ DOMAIN fs = {}
               /\ pendingWrites = {}
               /\ events = 0
               /\ progressListeners = 0)
    /\ [](pc \in {"probe", "image", "frame", "frame_write", "audio_write", "exec",
                  "read", "cleanup", "done"} => loaded)

\* createVideo was called on a service whose load had failed, and threw.
C11_Witness ==
    /\ result = "FFmpeg not loaded"
    /\ ~loaded
    /\ logListeners > 0

\* A duration a render can use: finite and positive.
Usable(d) == d[1] = "finite" /\ d[2] > 0

\* C12: the duration probe resolves to the probed duration when the metadata
\* loads with a usable duration, and to the 180 s fallback when the probe fails
\* or yields no usable duration.
C12_ResolvesProbedOrFallback ==
    probe[1] = "resolved"
        => probe[2] = IF audioEvents[1][1] = "loadedmetadata" /\ Usable(audioEvents[1][2])
                      THEN audioEvents[1][2]
                      ELSE Finite(FallbackSeconds * 1000)

\* The promise is settled by the first event the element fires, whichever it is.
C12_SettledByFirstEvent ==
    /\ audioEvents # <<>> => probe[1] = "resolved"
    /\ probe[1] = "resolved" => audioEvents # <<>>

\* The fallback is what the code resolves to for a failed probe and for the
\* falsy durations 0 and NaN; every other probed value is passed on as it is.
C12_FallbackOnFalsyOnly ==
    probe[1] = "resolved"
        => probe[2] = IF audioEvents[1][1] = "loadedmetadata" /\ Truthy(audioEvents[1][2])
                      THEN audioEvents[1][2]
                      ELSE Finite(FallbackSeconds * 1000)

\* C13: whatever the user does, at most one createVideo call is in flight at
\* any time.
C13_AtMostOneCreateVideoInFlight == Cardinality(Calls("createVideo")) <= 1

\* C19: when a transcription fails, the step that handles the failure leaves the
\* wizard in step UPLOAD with a non-empty error message and isProcessing false,
\* and the attempt never advances the wizard to EDIT_SRT: its text is not stored,
\* and EDIT_SRT is entered only by the completion of a call still in flight that
\* delivers its text.
C19_FailedTranscriptionReturnsToUpload ==
    /\ [][\A c \in Calls("transcribe") :
             (c \notin pending' /\ data'.srtContent # c.id)
                => /\ step' = "UPLOAD"
                   /\ error' \notin {NoError, ""}
                   /\ isProcessing' = FALSE
                   /\ data' = data]_vars
    /\ [][(step' = "EDIT_SRT" /\ step # "EDIT_SRT")
             => \E c \in Calls("transcribe") :
                   c \notin pending' /\ data'.srtContent = c.id]_vars

\* A transcription has failed with an error that carried no message.
C19_Witness ==
    /\ step = "UPLOAD"
    /\ error = "Transcription failed."
    /\ isProcessing = FALSE
    /\ data.audioFile # NoValue
    /\ data.srtContent = NoValue
    /\ pending = {}

\* What the k-th call was applied to.
InputOf(k) == IF k = 1 THEN argument ELSE returned[k - 1]

\* Number of fields of a time string: one more than its separators.
FieldCount(str) == 1 + Cardinality({ k \in 1..Len(str) : str[k] \in Separators })

\* The value of field k of a time string, a non-numeric field counting as 0.
Field(str, k) == ParseIntOrZero(Split(TrimString(str))[k])

\* The whole number of milliseconds nearest to the double x.
NearestMs(x) == Floor(Plus(Times(x, 1000), ShiftLeft(<<1>>, UnitBits - 1)))

\* C17: timeToSeconds reads exactly four fields as hours, minutes, seconds,
\* milliseconds and exactly three fields as minutes, seconds, milliseconds; the
\* millisecond field N counts as N/1000 whatever its number of digits, a
\* non-numeric field counts as 0, and the result is null exactly when the
\* number of fields is neither 3 nor 4.  "00:48:0" decodes to 48 seconds.
C17_FieldCountDecides ==
    \A k \in 1..Len(callee) :
        callee[k] = "timeToSeconds"
            => LET str == InputOf(k)[2]
                   out == returned[k]
               IN  /\ out = Null <=> FieldCount(str) \notin {3, 4}
                   /\ FieldCount(str) = 4
                         => NearestMs(out[2]) = Field(str, 1) * 3600000 + Field(str, 2) * 60000
                                                + Field(str, 3) * 1000 + Field(str, 4)
                   /\ FieldCount(str) = 3
                         => NearestMs(out[2]) = Field(str, 1) * 60000 + Field(str, 2) * 1000
                                                + Field(str, 3)
                   /\ str = <<"0", "0", ":", "4", "8", ":", "0">> => out = Number(Double(48))

\* "00:48:0" has been decoded, to 48 seconds.
C17_Witness ==
    /\ callee = <<"timeToSeconds">>
    /\ argument = String(<<"0", "0", ":", "4", "8", ":", "0">>)
    /\ returned = <<Number(Double(48))>>

Decoders == {"timeToSeconds", "srtTimeToSeconds"}

\* C18: a time in whole milliseconds that is encoded as HH:MM:SS,mmm and then
\* decoded comes back as the same time, to the millisecond; a canonical
\* HH:MM:SS,mmm string that is decoded and then encoded comes back as the same
\* string.
C18_RoundTrip ==
    Len(callee) >= 2
        => /\ (argument[1] = "number" /\ callee[1] = "secondsToSrtTime"
                   /\ callee[2] \in Decoders)
                 => /\ returned[2][1] = "number"
                    /\ NearestMs(returned[2][2]) = NearestMs(argument[2])
           /\ (argument \in { String(Canonical(T)) : T \in WholeMs }
                   /\ callee[1] \in Decoders /\ callee[2] = "secondsToSrtTime")
                 => returned[2] = argument

\* The round trip does hold for the string "00:00:14,480", which decodes to
\* 14.48 and is encoded as "00:00:14,480" again.
C18_ExampleRoundTrip ==
    (Len(callee) >= 2 /\ argument = String(Canonical(14480)))
        => returned[2] = argument

\* The k-th smallest element of a set of numbers.
Nth(S, k) == CHOOSE n \in S : Cardinality({ m \in S : m < n }) = k - 1

\* The time a time string of three or four fields writes, in whole ms.
MsOf(str) ==
    IF FieldCount(str) = 4
    THEN Field(str, 1) * 3600000 + Field(str, 2) * 60000 + Field(str, 3) * 1000 + Field(str, 4)
    ELSE Field(str, 1) * 60000 + Field(str, 2) * 1000 + Field(str, 3)

\* The first line after line n that is not blank, 0 if there is none.
NextFilled(lines, n) ==
    IF \E m \in (n + 1)..Len(lines) : ~IsBlank(lines[m])
    THEN CHOOSE m \in (n + 1)..Len(lines) :
             ~IsBlank(lines[m]) /\ \A p \in (n + 1)..(m - 1) : IsBlank(lines[p])
    ELSE 0

\* Line n is a range line with text of its own or on the line that follows.
HasText(lines, n) ==
    /\ IsRange(lines[n])
    /\ \/ lines[n].text # <<>>
       \/ /\ NextFilled(lines, n) # 0
          /\ ~IsRange(lines[NextFilled(lines, n)])
          /\ ~IsDigits(lines[NextFilled(lines, n)])

\* The range lines of a text that the sanitizer turns into blocks.
Blocks(lines) == { n \in 1..Len(lines) : HasText(lines, n) }

\* The sanitizer has been applied to the drawn text.
Sanitized == callee # <<>> /\ callee[1] = "validateAndFixSrt"

\* The end the rules prescribe for a block read as start S, end E (ms).
RuledEnd(S, E) ==
    IF E - S > MaxCueSeconds * 1000
    THEN S + LongCueSeconds * 1000
    ELSE IF E <= S THEN S + ShortCueSeconds * 1000 ELSE E

\* C15: for every block the sanitizer emits, the emitted start is the start
\* read from the input, and the emitted end is start + 5 s if the input's
\* end - start exceeded 12 s, start + 3 s if the input's end was not after its
\* start, and the input's end otherwise; so 0 < end - start <= 12 s in the
\* output.
C15_ClampsEveryBlock ==
    (Sanitized /\ Blocks(argument[2]) # {})
        => \A k \in 1..Cardinality(Blocks(argument[2])) :
               LET from == argument[2][Nth(Blocks(argument[2]), k)]
                   to == returned[1][2][4 * (k - 1) + 2]
               IN  /\ MsOf(to.start) = MsOf(from.start)
                   /\ MsOf(to.end) = RuledEnd(MsOf(from.start), MsOf(from.end))
                   /\ MsOf(to.end) - MsOf(to.start) > 0
                   /\ MsOf(to.end) - MsOf(to.start) <= MaxCueSeconds * 1000

\* The rules do give the two examples: (10, 9999) is emitted as (10, 15) and
\* (20, 18) as (20, 23).
C15_Examples ==
    (Sanitized /\ Blocks(argument[2]) # {})
        => \A k \in 1..Cardinality(Blocks(argument[2])) :
               LET from == argument[2][Nth(Blocks(argument[2]), k)]
                   to == returned[1][2][4 * (k - 1) + 2]
               IN  /\ (from.start = Canonical(10000) /\ from.end = Canonical(9999000))
                        => (to.start = Canonical(10000) /\ to.end = Canonical(15000))
                   /\ (from.start = Canonical(20000) /\ from.end = Canonical(18000))
                        => (to.start = Canonical(20000) /\ to.end = Canonical(23000))

\* Both examples have been sanitized in one text.
C15_ExamplesReached ==
    /\ Sanitized
    /\ Len(argument[2]) = 3
    /\ argument[2][1].start = Canonical(10000)
    /\ argument[2][2].start = Canonical(20000)
    /\ Blocks(argument[2]) = {1, 2}

\* A text with nothing in it.
IsEmptyText(str) == \A k \in 1..Len(str) : IsBlank(str[k])

\* C16: the sanitizer returns the raw text it was given, unmodified, exactly
\* when it produced no block, and never returns an empty text for a non-empty
\* one.
C16_RawExactlyWhenNoBlock ==
    Sanitized
        => /\ returned[1] = argument <=> Blocks(argument[2]) = {}
           /\ ~IsEmptyText(argument[2]) => ~IsEmptyText(returned[1][2])

\* A text of words only, in which no block is found, has come back as it was.
C16_Witness ==
    /\ Sanitized
    /\ argument = Text(<<TextLine(<<Oh, La>>), TextLine(<<<<"7">>>>), TextLine(<<Oh, La>>)>>)
    /\ returned[1] = argument

\* The calls of the parser, by position.
ParseCalls == { k \in 1..Len(callee) : callee[k] = "parseSrtToSubtitles" }

\* C14: every cue the parser returns has a non-empty text, startSec >= 0 and
\* endSec > startSec.
C14_CuesWellFormed ==
    \A k \in ParseCalls :
        \A q \in 1..Len(returned[k][2]) :
            LET cue == returned[k][2][q]
            IN  /\ cue.text # <<>>
                /\ ~Less(cue.startSec, Double(0))
                /\ Less(cue.startSec, cue.endSec)

\* What does hold of every cue: a non-empty text and startSec >= 0.
C14_TextAndStart ==
    \A k \in ParseCalls :
        \A q \in 1..Len(returned[k][2]) :
            /\ returned[k][2][q].text # <<>>
            /\ ~Less(returned[k][2][q].startSec, Double(0))

\* The narrower statement, that no text the sanitizer returned is parsed into
\* a cue that ends when it starts, does not hold either.
C14_SanitizedCuesHaveLength ==
    ~ /\ Len(callee) = 2
      /\ Sanitized
      /\ returned[2][2] # <<>>
      /\ returned[2][2][1].endSec = returned[2][2][1].startSec

\* Line m ends the look-ahead of the parser: a range line, or a digits-only
\* line immediately followed by a range line.
EndsText(lines, m) ==
    \/ IsRange(lines[m])
    \/ IsDigits(lines[m]) /\ m < Len(lines) /\ IsRange(lines[m + 1])

\* The first line after line n that ends the look-ahead, Len(lines) + 1 if
\* there is none.
TextEnd(lines, n) ==
    IF \E m \in (n + 1)..Len(lines) : EndsText(lines, m)
    THEN CHOOSE m \in (n + 1)..Len(lines) :
             EndsText(lines, m) /\ \A p \in (n + 1)..(m - 1) : ~EndsText(lines, p)
    ELSE Len(lines) + 1

\* Lines a..b joined by single spaces.
RECURSIVE Joined(_, _, _)
Joined(lines, a, b) == IF a > b THEN <<>> ELSE lines[a].text \o Joined(lines, a + 1, b)

\* The text of the cue of range line n.
CueText(lines, n) ==
    IF lines[n].text # <<>>
    THEN lines[n].text
    ELSE Joined(lines, n + 1, TextEnd(lines, n) - 1)

\* The range lines that have a cue text.
CueLines(lines) == { n \in 1..Len(lines) : IsRange(lines[n]) /\ CueText(lines, n) # <<>> }

\* C20: the parser gives each range line, in order, the text after its arrow
\* when there is one, and otherwise the following lines joined by single
\* spaces up to, and not including, the next range line or the next
\* digits-only line immediately followed by a range line; a digits-only line
\* not followed by a range line is text; no consumed line starts a cue.
C20_TextResolution ==
    \A k \in ParseCalls :
        LET lines == NonEmptyLines(SplitLines(InputOf(k)[2]))
            cues == returned[k][2]
        IN  /\ Len(cues) = Cardinality(CueLines(lines))
            /\ \A q \in 1..Len(cues) :
                   LET n == Nth(CueLines(lines), q)
                   IN  /\ cues[q].text = CueText(lines, n)
                       /\ cues[q].startSec = timeToSeconds(lines[n].start)[2]
                       /\ cues[q].endSec = timeToSeconds(lines[n].end)[2]

\* A range line, a digits-only line and a line of words have been parsed into
\* one cue whose text takes in the digits-only line.
C20_Witness ==
    /\ callee = <<"parseSrtToSubtitles">>
    /\ Len(argument[2]) = 3
    /\ IsRange(argument[2][1]) /\ argument[2][1].text = <<>>
    /\ IsDigits(argument[2][2])
    /\ argument[2][3] = TextLine(<<Oh, La>>)
    /\ Len(returned[1][2]) = 1
    /\ returned[1][2][1].text = <<<<"7">>, Oh, La>>

\* Range line n has no text after its arrow and is the last line or is
\* followed at once by the start of the next block.
BareRange(lines, n) ==
    /\ IsRange(lines[n])
    /\ lines[n].text = <<>>
    /\ n = Len(lines) \/ EndsText(lines, n + 1)

\* C21: the parser emits a cue for a range line if and only if its resolved
\* text is non-empty: there are as many cues as range lines that are not
\* bare, each with a non-empty text, and an empty or whitespace-only text
\* parses to the empty cue sequence.
C21_CueIffTextNonEmpty ==
    \A k \in ParseCalls :
        LET lines == NonEmptyLines(SplitLines(InputOf(k)[2]))
            cues == returned[k][2]
        IN  /\ Len(cues) = Cardinality({ n \in 1..Len(lines) : IsRange(lines[n]) })
                             - Cardinality({ n \in 1..Len(lines) : BareRange(lines, n) })
            /\ \A q \in 1..Len(cues) : cues[q].text # <<>>
            /\ IsEmptyText(InputOf(k)[2]) => cues = <<>>

\* Two range lines without text, an index line between them, have been
\* parsed into no cue at all.
C21_Witness ==
    /\ callee = <<"parseSrtToSubtitles">>
    /\ Len(argument[2]) = 3
    /\ BareRange(argument[2], 1)
    /\ IsDigits(argument[2][2])
    /\ BareRange(argument[2], 3)
    /\ returned = <<Cues(<<>>)>>

\* A text of empty lines only has been parsed into no cue.
C21_BlankWitness ==
    /\ callee = <<"parseSrtToSubtitles">>
    /\ argument = Text(<<BlankLine, BlankLine>>)
    /\ returned = <<Cues(<<>>)>>

\* The first line after line n that ends the text loop of the sanitizer: a
\* digits-only line or a range line; Len(lines) + 1 if there is none.
BlockEnd(lines, n) ==
    IF \E m \in (n + 1)..Len(lines) : IsDigits(lines[m]) \/ IsRange(lines[m])
    THEN CHOOSE m \in (n + 1)..Len(lines) :
             /\ IsDigits(lines[m]) \/ IsRange(lines[m])
             /\ \A p \in (n + 1)..(m - 1) : ~(IsDigits(lines[p]) \/ IsRange(lines[p]))
    ELSE Len(lines) + 1

\* The text of the block of range line n.
BlockText(lines, n) == lines[n].text \o Joined(lines, n + 1, BlockEnd(lines, n) - 1)

\* C22: the blocks the sanitizer emits carry the indices 1, 2, ..., N in input
\* order, whatever indices the input carries: the k-th block is numbered k and
\* holds the text of the k-th range line that has text, and a range line
\* without text emits no block and takes no index.
C22_ReindexedFromOne ==
    (Sanitized /\ Blocks(argument[2]) # {})
        => /\ Len(returned[1][2]) = 4 * Cardinality(Blocks(argument[2]))
           /\ \A k \in 1..Cardinality(Blocks(argument[2])) :
                  /\ returned[1][2][4 * (k - 1) + 1] = TextLine(<<ToChars(Digits(k))>>)
                  /\ returned[1][2][4 * (k - 1) + 3]
                         = TextLine(BlockText(argument[2], Nth(Blocks(argument[2]), k)))

\* Three range lines, the second without text, have been sanitized into two
\* blocks numbered 1 and 2.
C22_Witness ==
    /\ Sanitized
    /\ Len(argument[2]) = 3
    /\ \A n \in 1..3 : IsRange(argument[2][n])
    /\ Blocks(argument[2]) = {1, 3}
    /\ Len(returned[1][2]) = 8
    /\ returned[1][2][1] = TextLine(<<<<"1">>>>)
    /\ returned[1][2][5] = TextLine(<<<<"2">>>>)

\* A text whose own index line reads 7 has been sanitized into a block
\* numbered 1.
C22_InputIndexWitness ==
    /\ Sanitized
    /\ Len(argument[2]) = 3
    /\ argument[2][1] = TextLine(<<<<"7">>>>)
    /\ Blocks(argument[2]) = {2}
    /\ returned[1][2][1] = TextLine(<<<<"1">>>>)

\* C23: the cues the parser returns are in non-decreasing startSec order: of
\* every two consecutive cues, the earlier one does not start after the later
\* one.
C23_StartsNonDecreasing ==
    \A k \in ParseCalls :
        \A q \in 1..(Len(returned[k][2]) - 1) :
            ~Less(returned[k][2][q + 1].startSec, returned[k][2][q].startSec)

\* The narrower statement, that the cues parsed from a text the sanitizer
\* returned are in non-decreasing startSec order, does not hold either.
C23_SanitizedStartsNonDecreasing ==
    (Len(callee) = 2 /\ Sanitized)
        => \A q \in 1..(Len(returned[2][2]) - 1) :
               ~Less(returned[2][2][q + 1].startSec, returned[2][2][q].startSec)

\* The steps from EDIT_SRT on, in the order of the AppStep enumeration.
LaterSteps == {"EDIT_SRT", "GENERATING_IMAGE", "PREVIEW_DOWNLOAD"}

\* C24: once the session is reset it stays reset until a new upload: no
\* completion of a transcription or render started before the reset sets
\* srtContent or generatedVideoUrl or moves the step away from UPLOAD.  As a
\* state property: a step of EDIT_SRT or later implies an audio file, and a
\* video URL implies an audio file.
C24_ResetSessionStaysReset ==
    /\ step \in LaterSteps => data.audioFile # NoValue
    /\ data.generatedVideoUrl # NoValue => data.audioFile # NoValue

\* The half of the statement about the render alone, a video URL implies an
\* audio file, does not hold either.
C24_VideoUrlImpliesAudioFile ==
    data.generatedVideoUrl # NoValue => data.audioFile # NoValue

\* The log entries from position a on.
From(seq, a) == SubSeq(seq, a, Len(seq))

\* C25: across createVideo runs on the shared service, each encoder progress
\* event emitted during a run causes exactly one onProgress call, made to the
\* callback of that run; the callback of an earlier run is not invoked.
C25_OneCallPerEventToOwnCallback ==
    [][events' = events + 1
          => callee' = Append(callee, <<"onProgress", issued.renders>>)]_vars

\* What does hold: each event calls the callback of the current run exactly
\* once, and calls no callback other than those of the runs that registered a
\* listener.
C25_OwnCallbackOncePerEvent ==
    [][events' = events + 1
          => LET made == From(callee', Len(callee) + 1)
             IN  /\ Cardinality({ n \in 1..Len(made) :
                                     made[n] = <<"onProgress", issued.renders>> }) = 1
                 /\ \A n \in 1..Len(made) :
                        \E m \in 1..Len(Registered) : made[n][2] = Registered[m][2]]_vars

\* The narrower statement, that once a later run has started the callback of
\* an earlier run is not invoked again, does not hold either: in the log, no
\* call of a callback follows an entry of a later run.
C25_EarlierCallbackSilent ==
    \A a \in 1..Len(callee) : \A b \in a..Len(callee) :
        callee[b][1] = "onProgress" => callee[a][2] <= callee[b][2]

====
